---------------------------- MODULE Spec2Model ----------------------------
(***************************************************************************)
(* The finance server's session cart (src/server/finance_server.py): the   *)
(* process-wide SESSION_STATE with its three collections, and the five     *)
(* tools that read and write it.                                           *)
(*                                                                         *)
(* A batch tool (prices, news, summaries) is modelled in steps: the call   *)
(* starts (validation, reset, submit), the invoking thread consumes the    *)
(* pool's futures one at a time in completion order, and the call returns. *)
(* The collaborators (market data, news provider, article fetch, text      *)
(* generation) answer nondeterministically from small sets.                *)
(*                                                                         *)
(* Text that the code normalises (titles, urls) is a sequence of           *)
(* characters, so that strip() and lower() are computed and not assumed.   *)
(***************************************************************************)
EXTENDS Integers, Sequences, FiniteSets, TLC

\* ------------------------------------------------------------------ bounds

\* Longest ticker list a caller passes.
MaxTickers == 2
\* Longest index list a caller passes to the two curation tools.
MaxSel == 2
\* Largest number of records the summary collection is let grow to.
MaxSummaries == 2

\* ------------------------------------------------------- sequence helpers

Range(s) == {s[i] : i \in 1..Len(s)}

SeqsUpTo(S, n) == UNION {[1..k -> S] : k \in 0..n}

Min(a, b) == IF a < b THEN a ELSE b
Max(a, b) == IF a < b THEN b ELSE a

\* ------------------------------------------------------------------- text

\* Python's None, and a key missing from a dict: a token that is no text.
None == <<"<None>">>

\* Python truthiness of an optional string: neither None nor "".
Truthy(v) == v # None /\ v # <<>>

\* str.lower() on the model's alphabet.
LowerChar(c) ==
    CASE c = "A" -> "a"
      [] c = "X" -> "x"
      [] OTHER -> c

Lower(s) == [i \in 1..Len(s) |-> LowerChar(s[i])]

\* str.strip(): leading and trailing whitespace removed.
Strip(s) ==
    LET ink == {i \in 1..Len(s) : s[i] # " "}
    IN  IF ink = {} THEN <<>>
        ELSE LET lo == CHOOSE i \in ink : \A j \in ink : i <= j
                 hi == CHOOSE i \in ink : \A j \in ink : j <= i
             IN  SubSeq(s, lo, hi)

\* x.strip().lower() if x else ""      (finance_server.py 218-219)
Normalize(x) == IF Truthy(x) THEN Lower(Strip(x)) ELSE <<>>


\* ------------------------------------------------------- the collaborators

Tickers == {"NVDA", "AAPL"}

\* The ticker lists a caller passes: empty, one symbol, two, a repeated symbol.
TickerLists == SeqsUpTo(Tickers, MaxTickers)

\* One item of yfinance's stock.news after item.get('content', item): the
\* title and the four link-bearing fields, each None when the key is missing
\* (for clickThroughUrl and canonicalUrl: the nested dict's 'url').
RawItem(t, click, canon, link, url) ==
    [title |-> t, clickThroughUrl |-> click, canonicalUrl |-> canon,
     link |-> link, url |-> url]

\* The items the news provider serves in the model: a plain item; the same
\* title with other casing and whitespace under another url; the same url with
\* other casing and whitespace under another title and another field; an item
\* whose title and url are blank; an item with no title; an item with no link.
ItemPlain   == RawItem(<<"a">>, <<"x">>, None, None, None)
ItemRecased == RawItem(<<" ", "A">>, <<>>, <<"y">>, None, None)
ItemSameUrl == RawItem(<<"b">>, None, None, <<"X", " ">>, <<"y">>)
ItemBlank   == RawItem(<<>>, None, None, <<>>, <<" ">>)
ItemNoTitle == RawItem(None, None, None, None, <<"y">>)
ItemNoLink  == RawItem(<<"b">>, None, <<>>, None, None)

RawItems == {ItemPlain, ItemRecased, ItemSameUrl, ItemBlank, ItemNoTitle, ItemNoLink}

\* Length up to which every news list over RawItems is served.
MaxFeed == 1

\* Longer news lists: two items of one ticker that share a url, that share a
\* title, that share neither, of which one is blank, and that are both blank.
LongFeeds ==
    {<<ItemPlain, ItemSameUrl>>, <<ItemPlain, ItemRecased>>,
     <<ItemSameUrl, ItemRecased>>, <<ItemRecased, ItemBlank>>,
     <<ItemBlank, ItemBlank>>}

\* What stock.news answers: a list of items, or it raises.
Feeds == {[raised |-> FALSE, items |-> l] :
              l \in SeqsUpTo(RawItems, MaxFeed) \cup LongFeeds}
         \cup {[raised |-> TRUE]}

\* The limit argument of search_news_options: the default 4, smaller values,
\* zero and a negative one.
Limits == {-1, 0, 1, 4}

\* Python's lst[:n] for any integer n: a negative n counts from the end.
SliceTo(lst, n) ==
    IF n >= 0 THEN SubSeq(lst, 1, Min(n, Len(lst)))
    ELSE SubSeq(lst, 1, Max(Len(lst) + n, 0))

\* data.get('title', 'No Title')
NoTitle == <<"No Title">>
TitleOf(data) == IF data.title = None THEN NoTitle ELSE data.title

\* A link that prefers the url field to the link field.
LinkOfUrlFirst(data) ==
    LET l1 == IF Truthy(data.clickThroughUrl) THEN data.clickThroughUrl ELSE None
        l2 == IF ~Truthy(l1) /\ Truthy(data.canonicalUrl) THEN data.canonicalUrl ELSE l1
        l3 == IF ~Truthy(l2)
              THEN (IF Truthy(data.url) THEN data.url ELSE data.link)
              ELSE l2
    IN  l3

\* The link of a raw item (finance_server.py 192-198): clickThroughUrl, then
\* canonicalUrl, then link or url.
LinkOf(data) ==
    LET l1 == IF Truthy(data.clickThroughUrl) THEN data.clickThroughUrl ELSE None
        l2 == IF ~Truthy(l1) /\ Truthy(data.canonicalUrl) THEN data.canonicalUrl ELSE l1
        l3 == IF ~Truthy(l2)
              THEN (IF Truthy(data.link) THEN data.link ELSE data.url)
              ELSE l2
    IN  l3

\* A validity test that looks at the link only.
ValidItemLinkOnly(data) == Truthy(LinkOf(data))

\* if link and title != "No Title"
ValidItem(data) == Truthy(LinkOf(data)) /\ TitleOf(data) # NoTitle

\* fetch_single_news(ticker), given what stock.news answered.
FetchSingleNews(ticker, answer, limit) ==
    IF answer.raised THEN <<>>
    ELSE IF answer.items = <<>> THEN <<>>
    ELSE LET news_list == answer.items
             taken == SliceTo(news_list, Min(limit, Len(news_list)))
             valid == SelectSeq(taken, ValidItem)
         IN  [i \in 1..Len(valid) |->
                [ticker |-> ticker, title |-> TitleOf(valid[i]), url |-> LinkOf(valid[i])]]


\* What the market-data provider answers for one ticker: a non-empty series
\* on the first request (period 1d), an empty one and then a non-empty one
\* on the fallback request (period 5d), two empty series, or it raises.
MarketAnswers == {"series_1d", "series_5d", "empty", "raises"}

\* The percent changes an Active record can carry.
Changes == {-5, 42}

\* A fetch_single_ticker that reports an exception as missing data.
FetchSingleTickerHidesError(ticker, answer, change) ==
    IF answer \in {"raises", "empty"}
    THEN [symbol |-> ticker, status |-> "No Data", error |-> "Market Closed/No Data"]
    ELSE [symbol |-> ticker, status |-> "Active", change |-> change]

\* fetch_single_ticker(ticker), given what the provider answered.
FetchSingleTicker(ticker, answer, change) ==
    CASE answer = "raises" ->
           [symbol |-> ticker, status |-> "Error", error |-> "exception"]
      [] answer = "empty" ->
           [symbol |-> ticker, status |-> "No Data", error |-> "Market Closed/No Data"]
      [] OTHER ->
           [symbol |-> ticker, status |-> "Active", change |-> change]

\* What the article fetch answers for a url (_fetch_text): the page could not
\* be downloaded, or cleaned text of sufficient length.
ArticleAnswers == {"no_download", "text"}

\* _fetch_text(url): an "Error..." string, or the text.
FetchText(answer) ==
    IF answer = "no_download"
    THEN [error |-> TRUE, text |-> "Error: Failed to download page."]
    ELSE [error |-> FALSE, text |-> "article"]

\* What the text-generation call answers: a completion, or it raises.
LlmAnswers == {"completion", "raises"}

\* A process_item that numbers its records from 1.
ProcessItemOneBased(item, article, llm) ==
    [id |-> item.id + 1, ticker |-> item.ticker, summary |-> "completion"]

\* A process_item that does not test what _fetch_text returned: the error
\* string goes to the text generation as if it were the article.
ProcessItemSummarizesFailure(item, article, llm) ==
    IF llm = "raises"
    THEN [id |-> item.id, ticker |-> item.ticker, summary |-> "Error: exception"]
    ELSE [id |-> item.id, ticker |-> item.ticker, title |-> item.title,
          summary |-> "completion"]

\* process_item(item): one record on each of its three return paths.
ProcessItem(item, article, llm) ==
    LET raw_text == FetchText(article)
    IN  IF raw_text.error
        THEN [id |-> item.id, ticker |-> item.ticker,
              summary |-> "Failed to fetch content: Error: Failed to download page."]
        ELSE IF llm = "raises"
        THEN [id |-> item.id, ticker |-> item.ticker, summary |-> "Error: exception"]
        ELSE [id |-> item.id, ticker |-> item.ticker, title |-> item.title,
              summary |-> "completion"]

\* ------------------------------------------------------------------ state

\* Largest index a caller passes to the curation tools (the smallest is -1).
MaxIndex == 1

Indices == -1..MaxIndex
IndexLists == SeqsUpTo(Indices, MaxSel)

\* The threads that invoke tools. Tool calls run to completion one after the
\* other on thread 1.
Threads == {1, 2}

VARIABLES
    prices,     \* SESSION_STATE["prices"]: a dict, kept in insertion order
    raw_news,   \* SESSION_STATE["raw_news"]: the candidate list
    summaries,  \* SESSION_STATE["summaries"]: the summary collection
    inv,        \* per thread: the tool invocation in flight and its locals
    last        \* the last completed call: tool, arguments, return value

vars == <<prices, raw_news, summaries, inv, last>>

Idle == [op |-> "idle"]

\* The value of last while a call is in flight: its reply is yet to come.
Running == [op |-> "none"]

\* Return values.
Text(str) == [kind |-> "text", text |-> str]

\* A store that appends and never overwrites.
DictPutAppends(d, rec) == Append(d, rec)

\* dict[key] = value on an insertion-ordered dict kept as a list of records.
DictPut(d, rec) ==
    IF \E i \in 1..Len(d) : d[i].symbol = rec.symbol
    THEN [i \in 1..Len(d) |-> IF d[i].symbol = rec.symbol THEN rec ELSE d[i]]
    ELSE Append(d, rec)

IdsOf(recs) == [i \in 1..Len(recs) |-> recs[i].id]

Init ==
    /\ prices = <<>>
    /\ raw_news = <<>>
    /\ summaries = <<>>
    /\ inv = [t \in Threads |-> Idle]
    /\ last = Running

\* ------------------------------------------------ fetch_and_store_prices

\* A reset that forgets the candidate list.
ResetKeepsNews == [prices |-> <<>>, raw_news |-> raw_news, summaries |-> <<>>]

\* A reset that keeps the price records.
ResetKeepsPrices == [prices |-> prices, raw_news |-> <<>>, summaries |-> <<>>]

\* _reset_session(): the three collections after it.
ResetSession == [prices |-> <<>>, raw_news |-> <<>>, summaries |-> <<>>]

\* Lines 79-82 and the submit of 133-134: the reset, the empty check, one
\* future per element of tickers.
FetchStart(t, tickers) ==
    /\ inv[t].op = "idle"
    /\ prices' = ResetSession.prices
    /\ raw_news' = ResetSession.raw_news
    /\ summaries' = ResetSession.summaries
    /\ IF tickers = <<>>
       THEN /\ last' = [op |-> "fetch", tickers |-> tickers,
                        out |-> Text("No tickers provided.")]
            /\ UNCHANGED inv
       ELSE /\ inv' = [inv EXCEPT ![t] =
                         [op |-> "fetch", tickers |-> tickers,
                          pending |-> 1..Len(tickers), results_summary |-> <<>>]]
            /\ last' = Running

\* A quick view that shows the status of every record.
QuickViewStatusOnly(data) == [ticker |-> data.symbol, status |-> data.status]

\* The quick-view entry of one record (lines 144-147).
QuickView(data) ==
    IF data.status = "Active"
    THEN [ticker |-> data.symbol, pct |-> data.change]
    ELSE [ticker |-> data.symbol, status |-> data.status]

\* The body of the as_completed loop (lines 137-147), run by the invoking
\* thread with the record data that future i returned.
FetchStore(t, i, data) ==
    /\ inv[t].op = "fetch"
    /\ i \in inv[t].pending
    /\ prices' = DictPut(prices, data)
    /\ inv' = [inv EXCEPT ![t].pending = @ \ {i},
                          ![t].results_summary = Append(@, QuickView(data))]
    /\ UNCHANGED <<raw_news, summaries, last>>

\* One turn of the as_completed loop (lines 136-147): future i is done with
\* the record its task returned; the invoking thread stores it.
FetchConsume(t, i, answer, change) ==
    /\ inv[t].op = "fetch"
    /\ i \in inv[t].pending
    /\ FetchStore(t, i, FetchSingleTicker(inv[t].tickers[i], answer, change))

\* A return that does not wait for the futures.
FetchReturnEarly(t) ==
    /\ inv[t].op = "fetch"
    /\ last' = [op |-> "fetch", tickers |-> inv[t].tickers,
                out |-> [kind |-> "quickview", entries |-> inv[t].results_summary]]
    /\ inv' = [inv EXCEPT ![t] = Idle]
    /\ UNCHANGED <<prices, raw_news, summaries>>

\* Line 149.
FetchReturn(t) ==
    /\ inv[t].op = "fetch"
    /\ inv[t].pending = {}
    /\ last' = [op |-> "fetch", tickers |-> inv[t].tickers,
                out |-> [kind |-> "quickview", entries |-> inv[t].results_summary]]
    /\ inv' = [inv EXCEPT ![t] = Idle]
    /\ UNCHANGED <<prices, raw_news, summaries>>

\* --------------------------------------------------- search_news_options

\* The state the dedup loop works on: the shared candidate list and the
\* invocation's locals.
DedupState(news, index, urls, titles, menu) ==
    [raw_news |-> news, global_index |-> index, seen_urls |-> urls,
     seen_titles |-> titles, menu_output |-> menu]

\* A loop body that compares urls only.
DedupStepUrlOnly(st, item) ==
    LET url_normalized == Normalize(item.url)
    IN  IF url_normalized \in st.seen_urls
        THEN st
        ELSE DedupState(
               Append(st.raw_news,
                      [id |-> st.global_index, ticker |-> item.ticker,
                       title |-> item.title, url |-> item.url]),
               st.global_index + 1,
               IF url_normalized # <<>>
                 THEN st.seen_urls \cup {url_normalized} ELSE st.seen_urls,
               st.seen_titles,
               Append(st.menu_output,
                      [id |-> st.global_index, ticker |-> item.ticker,
                       title |-> item.title]))

\* A loop body that numbers every item it sees, skipped ones included.
DedupStepCountsSkipped(st, item) ==
    LET url_normalized == Normalize(item.url)
        title_normalized == Normalize(item.title)
    IN  IF url_normalized \in st.seen_urls \/ title_normalized \in st.seen_titles
        THEN [st EXCEPT !.global_index = @ + 1]
        ELSE DedupState(
               Append(st.raw_news,
                      [id |-> st.global_index, ticker |-> item.ticker,
                       title |-> item.title, url |-> item.url]),
               st.global_index + 1,
               IF url_normalized # <<>>
                 THEN st.seen_urls \cup {url_normalized} ELSE st.seen_urls,
               IF title_normalized # <<>>
                 THEN st.seen_titles \cup {title_normalized} ELSE st.seen_titles,
               Append(st.menu_output,
                      [id |-> st.global_index, ticker |-> item.ticker,
                       title |-> item.title]))

\* A loop body that records the url and title of a skipped item as seen.
DedupStepMarksSkipped(st, item) ==
    LET url_normalized == Normalize(item.url)
        title_normalized == Normalize(item.title)
        urls == IF url_normalized # <<>>
                THEN st.seen_urls \cup {url_normalized} ELSE st.seen_urls
        titles == IF title_normalized # <<>>
                  THEN st.seen_titles \cup {title_normalized} ELSE st.seen_titles
    IN  IF url_normalized \in st.seen_urls \/ title_normalized \in st.seen_titles
        THEN [st EXCEPT !.seen_urls = urls, !.seen_titles = titles]
        ELSE DedupState(
               Append(st.raw_news,
                      [id |-> st.global_index, ticker |-> item.ticker,
                       title |-> item.title, url |-> item.url]),
               st.global_index + 1, urls, titles,
               Append(st.menu_output,
                      [id |-> st.global_index, ticker |-> item.ticker,
                       title |-> item.title]))

\* One pass of the loop body (lines 212-242) for one item.
DedupStep(st, item) ==
    LET url_normalized == Normalize(item.url)
        title_normalized == Normalize(item.title)
    IN  IF url_normalized \in st.seen_urls \/ title_normalized \in st.seen_titles
        THEN st
        ELSE DedupState(
               Append(st.raw_news,
                      [id |-> st.global_index, ticker |-> item.ticker,
                       title |-> item.title, url |-> item.url]),
               st.global_index + 1,
               IF url_normalized # <<>>
                 THEN st.seen_urls \cup {url_normalized} ELSE st.seen_urls,
               IF title_normalized # <<>>
                 THEN st.seen_titles \cup {title_normalized} ELSE st.seen_titles,
               Append(st.menu_output,
                      [id |-> st.global_index, ticker |-> item.ticker,
                       title |-> item.title]))

\* for item in items: ... over the items of one completed future.
RECURSIVE DedupLoop(_, _)
DedupLoop(st, items) ==
    IF items = <<>> THEN st
    ELSE DedupLoop(DedupStep(st, Head(items)), Tail(items))

\* A clearing that also drops the price records.
ClearNewsDropsPrices == [prices |-> <<>>, raw_news |-> <<>>, summaries |-> summaries]

\* A discovery that does not clear the candidate list.
ClearNewsKeepsNews == [prices |-> prices, raw_news |-> raw_news, summaries |-> summaries]

\* A discovery that starts a new session as the price fetch does.
ClearNewsResetsSession == [prices |-> <<>>, raw_news |-> <<>>, summaries |-> <<>>]

\* Line 168: the session once the candidate list is cleared.
ClearNews == [prices |-> prices, raw_news |-> <<>>, summaries |-> summaries]

\* Lines 165-174 and the submit of 207-208: the empty check comes first, then
\* the candidate list is cleared and the locals are initialised.
DiscoverStart(t, tickers, limit) ==
    /\ inv[t].op = "idle"
    /\ IF tickers = <<>>
       THEN /\ last' = [op |-> "discover", tickers |-> tickers, limit |-> limit,
                        out |-> Text("No tickers provided.")]
            /\ UNCHANGED <<prices, raw_news, summaries, inv>>
       ELSE /\ prices' = ClearNews.prices
            /\ raw_news' = ClearNews.raw_news
            /\ summaries' = ClearNews.summaries
            /\ inv' = [inv EXCEPT ![t] =
                         [op |-> "discover", tickers |-> tickers, limit |-> limit,
                          pending |-> 1..Len(tickers), global_index |-> 0,
                          seen_urls |-> {}, seen_titles |-> {}, menu_output |-> <<>>]]
            /\ last' = Running

\* The body of the as_completed loop (lines 211-242), run by the invoking
\* thread with the list items that future i returned.
DiscoverStore(t, i, items) ==
    /\ inv[t].op = "discover"
    /\ i \in inv[t].pending
    /\ LET st == DedupLoop(DedupState(raw_news, inv[t].global_index, inv[t].seen_urls,
                                      inv[t].seen_titles, inv[t].menu_output),
                           items)
       IN  /\ raw_news' = st.raw_news
           /\ inv' = [inv EXCEPT ![t].pending = @ \ {i},
                                 ![t].global_index = st.global_index,
                                 ![t].seen_urls = st.seen_urls,
                                 ![t].seen_titles = st.seen_titles,
                                 ![t].menu_output = st.menu_output]
    /\ UNCHANGED <<prices, summaries, last>>

\* One turn of the as_completed loop (lines 210-242): future i is done with
\* the valid items of its ticker; the invoking thread dedups and appends.
DiscoverConsume(t, i, answer) ==
    /\ inv[t].op = "discover"
    /\ i \in inv[t].pending
    /\ DiscoverStore(t, i, FetchSingleNews(inv[t].tickers[i], answer, inv[t].limit))

\* Lines 244-247.
DiscoverReturn(t) ==
    /\ inv[t].op = "discover"
    /\ inv[t].pending = {}
    /\ last' = [op |-> "discover", tickers |-> inv[t].tickers, limit |-> inv[t].limit,
                out |-> IF inv[t].menu_output = <<>>
                        THEN Text("No news found.")
                        ELSE [kind |-> "menu", lines |-> inv[t].menu_output]]
    /\ inv' = [inv EXCEPT ![t] = Idle]
    /\ UNCHANGED <<prices, raw_news, summaries>>

\* -------------------------------------------- summarize_selected_indices

\* A validation without the lower bound: Python reads a negative index from
\* the end of the list.
SelectItemsNoLowerBound(indices, news) ==
    LET valid == SelectSeq(indices, LAMBDA idx : -Len(news) <= idx /\ idx < Len(news))
    IN  [k \in 1..Len(valid) |->
           news[(IF valid[k] >= 0 THEN valid[k] ELSE Len(news) + valid[k]) + 1]]

\* A validation that counts the requested positions from the end of the list.
SelectItemsFromEnd(indices, news) ==
    LET valid == SelectSeq(indices, LAMBDA idx : 0 <= idx /\ idx < Len(news))
    IN  [k \in 1..Len(valid) |-> news[Len(news) - valid[k]]]

\* Lines 264-268: the candidates at the requested positions, in request order.
SelectItems(indices, news) ==
    LET valid == SelectSeq(indices, LAMBDA idx : 0 <= idx /\ idx < Len(news))
    IN  [k \in 1..Len(valid) |-> news[valid[k] + 1]]

\* An early return that tests the request and not what survived validation.
NothingRequested(indices, selected_items) == indices = <<>>

\* Line 270: if not selected_items.
NothingSelected(indices, selected_items) == selected_items = <<>>

\* Lines 264-271 and the submit of 321-322.
SummarizeStart(t, indices) ==
    /\ inv[t].op = "idle"
    /\ LET selected_items == SelectItems(indices, raw_news)
       IN  IF NothingSelected(indices, selected_items)
           THEN /\ last' = [op |-> "summarize", indices |-> indices,
                            out |-> Text("Invalid indices provided.")]
                /\ UNCHANGED inv
           ELSE /\ inv' = [inv EXCEPT ![t] =
                             [op |-> "summarize", indices |-> indices,
                              selected_items |-> selected_items,
                              pending |-> 1..Len(selected_items),
                              new_summaries |-> <<>>]]
                /\ last' = Running
    /\ UNCHANGED <<prices, raw_news, summaries>>

\* The body of the as_completed loop (line 324), run by the invoking thread
\* with the record rec that future i returned.
SummarizeStore(t, i, rec) ==
    /\ inv[t].op = "summarize"
    /\ i \in inv[t].pending
    /\ inv' = [inv EXCEPT ![t].pending = @ \ {i},
                          ![t].new_summaries = Append(@, rec)]
    /\ UNCHANGED <<prices, raw_news, summaries, last>>

\* One turn of the as_completed loop (lines 323-324).
SummarizeConsume(t, i, article, llm) ==
    /\ inv[t].op = "summarize"
    /\ i \in inv[t].pending
    /\ SummarizeStore(t, i, ProcessItem(inv[t].selected_items[i], article, llm))

\* A return that stores a new record only if no stored record has its id.
SummarizeReturnSkipsStored(t) ==
    /\ inv[t].op = "summarize"
    /\ inv[t].pending = {}
    /\ summaries' = summaries \o
           SelectSeq(inv[t].new_summaries,
                     LAMBDA rec : \A k \in 1..Len(summaries) : summaries[k].id # rec.id)
    /\ last' = [op |-> "summarize", indices |-> inv[t].indices,
                out |-> [kind |-> "records", records |-> inv[t].new_summaries]]
    /\ inv' = [inv EXCEPT ![t] = Idle]
    /\ UNCHANGED <<prices, raw_news>>

\* A return that replaces the collection by the new records.
SummarizeReturnReplaces(t) ==
    /\ inv[t].op = "summarize"
    /\ inv[t].pending = {}
    /\ summaries' = inv[t].new_summaries
    /\ last' = [op |-> "summarize", indices |-> inv[t].indices,
                out |-> [kind |-> "records", records |-> inv[t].new_summaries]]
    /\ inv' = [inv EXCEPT ![t] = Idle]
    /\ UNCHANGED <<prices, raw_news>>

\* Lines 327-330: extend the collection, return the new records.
SummarizeReturn(t) ==
    /\ inv[t].op = "summarize"
    /\ inv[t].pending = {}
    /\ summaries' = summaries \o inv[t].new_summaries
    /\ last' = [op |-> "summarize", indices |-> inv[t].indices,
                out |-> [kind |-> "records", records |-> inv[t].new_summaries]]
    /\ inv' = [inv EXCEPT ![t] = Idle]
    /\ UNCHANGED <<prices, raw_news>>

\* ------------------------------------------------------------ pool workers

\* The results of the futures of a call that are done and that the invoking
\* thread may not have taken yet: a function from the index of a future to
\* what its task returned.
DoneOf(call) == IF "done" \in DOMAIN call THEN call.done ELSE <<>>

Put(f, i, v) == [j \in DOMAIN f \cup {i} |-> IF j = i THEN v ELSE f[j]]

\* A worker that stores the record itself.
FetchWorkStores(t, i, answer, change) ==
    /\ inv[t].op = "fetch"
    /\ i \in inv[t].pending
    /\ i \notin DOMAIN DoneOf(inv[t])
    /\ LET data == FetchSingleTicker(inv[t].tickers[i], answer, change)
       IN  /\ prices' = DictPut(prices, data)
           /\ inv' = [inv EXCEPT ![t] =
                         [op |-> "fetch", tickers |-> @.tickers, pending |-> @.pending,
                          results_summary |-> @.results_summary,
                          done |-> Put(DoneOf(@), i, data)]]
    /\ UNCHANGED <<raw_news, summaries, last>>

\* A pool worker runs fetch_single_ticker (lines 85-127) for future i of
\* thread t's call: it returns a record and touches nothing else.
FetchWork(t, i, answer, change) ==
    /\ inv[t].op = "fetch"
    /\ i \in inv[t].pending
    /\ i \notin DOMAIN DoneOf(inv[t])
    /\ inv' = [inv EXCEPT ![t] =
                 [op |-> "fetch", tickers |-> @.tickers, pending |-> @.pending,
                  results_summary |-> @.results_summary,
                  done |-> Put(DoneOf(@), i,
                               FetchSingleTicker(@.tickers[i], answer, change))]]
    /\ UNCHANGED <<prices, raw_news, summaries, last>>

\* as_completed yields future i, which is done; the invoking thread runs the
\* body of the loop with its result (lines 136-147).
FetchCollect(t, i) ==
    /\ inv[t].op = "fetch"
    /\ i \in DOMAIN DoneOf(inv[t])
    /\ FetchStore(t, i, DoneOf(inv[t])[i])

\* A pool worker runs fetch_single_news (lines 177-203) for future i.
DiscoverWork(t, i, answer) ==
    /\ inv[t].op = "discover"
    /\ i \in inv[t].pending
    /\ i \notin DOMAIN DoneOf(inv[t])
    /\ inv' = [inv EXCEPT ![t] =
                 [op |-> "discover", tickers |-> @.tickers, limit |-> @.limit,
                  pending |-> @.pending, global_index |-> @.global_index,
                  seen_urls |-> @.seen_urls, seen_titles |-> @.seen_titles,
                  menu_output |-> @.menu_output,
                  done |-> Put(DoneOf(@), i,
                               FetchSingleNews(@.tickers[i], answer, @.limit))]]
    /\ UNCHANGED <<prices, raw_news, summaries, last>>

\* Lines 210-242 for the done future i.
DiscoverCollect(t, i) ==
    /\ inv[t].op = "discover"
    /\ i \in DOMAIN DoneOf(inv[t])
    /\ DiscoverStore(t, i, DoneOf(inv[t])[i])

\* A pool worker runs process_item (lines 276-317) for future i.
SummarizeWork(t, i, article, llm) ==
    /\ inv[t].op = "summarize"
    /\ i \in inv[t].pending
    /\ i \notin DOMAIN DoneOf(inv[t])
    /\ inv' = [inv EXCEPT ![t] =
                 [op |-> "summarize", indices |-> @.indices,
                  selected_items |-> @.selected_items, pending |-> @.pending,
                  new_summaries |-> @.new_summaries,
                  done |-> Put(DoneOf(@), i,
                               ProcessItem(@.selected_items[i], article, llm))]]
    /\ UNCHANGED <<prices, raw_news, summaries, last>>

\* Lines 323-324 for the done future i.
SummarizeCollect(t, i) ==
    /\ inv[t].op = "summarize"
    /\ i \in DOMAIN DoneOf(inv[t])
    /\ SummarizeStore(t, i, DoneOf(inv[t])[i])

\* ------------------------------------------------- fetch_single_ticker

\* What one stock.history request answers: a non-empty series, an empty
\* one, or it raises.
HistoryAnswers == {"series", "empty", "raises"}

\* The tasks of a call that have begun: a function from the index of a
\* future to the answers its history requests got so far, the request for
\* period 1d first.
TasksOf(call) == IF "tasks" \in DOMAIN call THEN call.tasks ELSE <<>>

\* What the requests of one task amount to, as an element of MarketAnswers.
HistoryOutcome(answers) ==
    CASE answers[Len(answers)] = "raises" -> "raises"
      [] answers[Len(answers)] = "empty" -> "empty"
      [] OTHER -> IF Len(answers) = 1 THEN "series_1d" ELSE "series_5d"

\* The call record of a fetch with its tasks and done futures.
FetchCall(call, tasks, done) ==
    [op |-> "fetch", tickers |-> call.tickers, pending |-> call.pending,
     results_summary |-> call.results_summary, tasks |-> tasks, done |-> done]

\* Line 89: the task of future i requests the history of period 1d.
HistoryFirst(t, i, answer) ==
    /\ inv[t].op = "fetch"
    /\ i \in inv[t].pending
    /\ i \notin DOMAIN TasksOf(inv[t])
    /\ inv' = [inv EXCEPT ![t] =
                 FetchCall(@, Put(TasksOf(@), i, <<answer>>), DoneOf(@))]
    /\ UNCHANGED <<prices, raw_news, summaries, last>>

\* A task that requests the period 5d whatever the first request answered,
\* short of an exception.
HistorySecondAlways(t, i, answer) ==
    /\ inv[t].op = "fetch"
    /\ i \in DOMAIN TasksOf(inv[t])
    /\ Len(TasksOf(inv[t])[i]) = 1
    /\ TasksOf(inv[t])[i][1] # "raises"
    /\ i \notin DOMAIN DoneOf(inv[t])
    /\ inv' = [inv EXCEPT ![t] =
                 FetchCall(@, Put(TasksOf(@), i, Append(TasksOf(@)[i], answer)), DoneOf(@))]
    /\ UNCHANGED <<prices, raw_news, summaries, last>>

\* Lines 90-91: if hist.empty, the task requests the history of period 5d.
HistorySecond(t, i, answer) ==
    /\ inv[t].op = "fetch"
    /\ i \in DOMAIN TasksOf(inv[t])
    /\ TasksOf(inv[t])[i] = <<"empty">>
    /\ i \notin DOMAIN DoneOf(inv[t])
    /\ inv' = [inv EXCEPT ![t] =
                 FetchCall(@, Put(TasksOf(@), i, Append(TasksOf(@)[i], answer)), DoneOf(@))]
    /\ UNCHANGED <<prices, raw_news, summaries, last>>

\* Lines 93-127: the task returns its record: No Data if hist is still
\* empty, Error if a request raised, Active otherwise.
TaskReturn(t, i, change) ==
    /\ inv[t].op = "fetch"
    /\ i \in DOMAIN TasksOf(inv[t])
    /\ TasksOf(inv[t])[i] # <<"empty">>
    /\ i \notin DOMAIN DoneOf(inv[t])
    /\ inv' = [inv EXCEPT ![t] =
                 FetchCall(@, TasksOf(@),
                           Put(DoneOf(@), i,
                               FetchSingleTicker(@.tickers[i],
                                                 HistoryOutcome(TasksOf(@)[i]), change)))]
    /\ UNCHANGED <<prices, raw_news, summaries, last>>

\* ------------------------------------------------------- executor widths

\* The widths the code gives its executors: max_workers of line 131 is
\* min(len(tickers), 10), max_workers of line 321 is 5.
FetchMaxWorkers == 10
SummarizeMaxWorkers == 5

\* An executor as wide as the ticker list is long.
FetchWidthUnbounded(tickers) == Len(tickers)

\* Line 131.
FetchWidth(tickers) == Min(Len(tickers), FetchMaxWorkers)

\* Line 321.
SummarizeWidth(selected_items) == SummarizeMaxWorkers

\* The futures of a call whose task a worker has taken from the executor's
\* queue, and those of them that are still executing.
BegunOf(call) == IF "begun" \in DOMAIN call THEN call.begun ELSE {}
ExecutingOf(call) == BegunOf(call) \cap call.pending

\* The future at the head of the executor's queue: tasks are taken in the
\* order of submission.
HeadOfQueue(call, i) ==
    /\ i \in call.pending \ BegunOf(call)
    /\ \A j \in call.pending \ BegunOf(call) : i <= j

\* A worker of the executor of line 133 takes the next task: the executor
\* has max_workers threads, each running one task at a time.
FetchBegin(t, i) ==
    /\ inv[t].op = "fetch"
    /\ HeadOfQueue(inv[t], i)
    /\ Cardinality(ExecutingOf(inv[t])) < FetchWidth(inv[t].tickers)
    /\ inv' = [inv EXCEPT ![t] =
                 [op |-> "fetch", tickers |-> @.tickers, pending |-> @.pending,
                  results_summary |-> @.results_summary,
                  begun |-> BegunOf(@) \cup {i}]]
    /\ UNCHANGED <<prices, raw_news, summaries, last>>

\* The task of future i, which a worker is executing, finishes and the
\* invoking thread takes its result.
FetchFinish(t, i, answer, change) ==
    /\ inv[t].op = "fetch"
    /\ i \in ExecutingOf(inv[t])
    /\ FetchConsume(t, i, answer, change)

\* A worker of the executor of line 321 takes the next task.
SummarizeBegin(t, i) ==
    /\ inv[t].op = "summarize"
    /\ HeadOfQueue(inv[t], i)
    /\ Cardinality(ExecutingOf(inv[t])) < SummarizeWidth(inv[t].selected_items)
    /\ inv' = [inv EXCEPT ![t] =
                 [op |-> "summarize", indices |-> @.indices,
                  selected_items |-> @.selected_items, pending |-> @.pending,
                  new_summaries |-> @.new_summaries,
                  begun |-> BegunOf(@) \cup {i}]]
    /\ UNCHANGED <<prices, raw_news, summaries, last>>

SummarizeFinish(t, i, article, llm) ==
    /\ inv[t].op = "summarize"
    /\ i \in ExecutingOf(inv[t])
    /\ SummarizeConsume(t, i, article, llm)

\* ------------------------------------------------- remove_news_summaries

\* A removal by position in the collection instead of by id.
RemoveFromByPosition(sums, indices) ==
    LET kept == SelectSeq([p \in 1..Len(sums) |-> p], LAMBDA p : (p - 1) \notin Range(indices))
    IN  [k \in 1..Len(kept) |-> sums[kept[k]]]

\* A removal that refuses to delete the last records.
RemoveFromRetains(sums, indices) ==
    LET kept == SelectSeq(sums, LAMBDA item : item.id \notin Range(indices))
    IN  IF kept = <<>> THEN sums ELSE kept

\* A removal that deletes, for each id, only the first record that has it.
RemoveFromFirstOnly(sums, indices) ==
    LET first(p) == \A k \in 1..(p - 1) : sums[k].id # sums[p].id
        kept == SelectSeq([p \in 1..Len(sums) |-> p],
                          LAMBDA p : ~(sums[p].id \in Range(indices) /\ first(p)))
    IN  [k \in 1..Len(kept) |-> sums[kept[k]]]

\* Lines 351-355: the records whose id is not in the given set.
RemoveFrom(sums, indices) ==
    SelectSeq(sums, LAMBDA item : item.id \notin Range(indices))

\* A reply that lists positions instead of ids.
RemainingPositions(sums) == [p \in 1..Len(sums) |-> p - 1]

\* Lines 348 and 358: the ids of the records, in collection order.
RemainingIds(sums) == IdsOf(sums)

\* The whole tool (lines 347-359).
RemoveSummaries(t, indices) ==
    /\ inv[t].op = "idle"
    /\ IF indices = <<>>
       THEN /\ last' = [op |-> "remove", indices |-> indices,
                        out |-> [kind |-> "ids", ids |-> RemainingIds(summaries)]]
            /\ UNCHANGED summaries
       ELSE /\ summaries' = RemoveFrom(summaries, indices)
            /\ last' = [op |-> "remove", indices |-> indices,
                        out |-> [kind |-> "ids",
                                 ids |-> RemainingIds(RemoveFrom(summaries, indices))]]
    /\ UNCHANGED <<prices, raw_news, inv>>

\* --------------------------------------------------- export_final_report

\* One Market Data line (lines 378-396), with the Price Trend line left out.
MarketLine(data) ==
    IF data.status = "Active"
    THEN [ticker |-> data.symbol, pct |-> data.change]
    ELSE [ticker |-> data.symbol, status |-> data.status]

\* One Key Developments block (lines 404-406): item.get('title', 'News').
NewsBlock(item) ==
    [ticker |-> item.ticker,
     title |-> IF "title" \in DOMAIN item THEN item.title ELSE <<"News">>,
     summary |-> item.summary,
     ref |-> item.id]

\* A document that lists the newest summary first.
ReportNewestFirst ==
    [kind |-> "report",
     header |-> "# Daily Market Pulse",
     market |-> [i \in 1..Len(prices) |-> MarketLine(prices[i])],
     placeholder |-> (summaries = <<>>),
     news |-> [i \in 1..Len(summaries) |-> NewsBlock(summaries[Len(summaries) + 1 - i])]]

\* The document (lines 373-408).
Report ==
    [kind |-> "report",
     header |-> "# Daily Market Pulse",
     market |-> [i \in 1..Len(prices) |-> MarketLine(prices[i])],
     placeholder |-> (summaries = <<>>),
     news |-> [i \in 1..Len(summaries) |-> NewsBlock(summaries[i])]]

\* A report that empties the summary collection once it is rendered.
ExportFinalReportConsumes(t) ==
    /\ inv[t].op = "idle"
    /\ last' = [op |-> "report", out |-> Report]
    /\ summaries' = <<>>
    /\ UNCHANGED <<prices, raw_news, inv>>

ExportFinalReport(t) ==
    /\ inv[t].op = "idle"
    /\ last' = [op |-> "report", out |-> Report]
    /\ UNCHANGED <<prices, raw_news, summaries, inv>>

\* ------------------------------------------ finance_client.finance_info

\* What agent.send answers: a response that holds the report heading, a
\* response that does not, an exception whose message names a tool-call
\* validation failure, any other exception.
SendOutcomes == {"report", "other_text", "retryable", "fatal"}

\* A test that finds every error worth a retry.
RetryableAlways(outcome) == TRUE

\* Lines 347-352: the message names a tool-call validation failure.
Retryable(outcome) == outcome = "retryable"

\* What a finished run leaves: what finance_info returned (a path, None) or
\* that it raised, the number of agent.send calls, the errors they raised,
\* whether the report file was written, and whether the context of
\* client.run() was entered and left without an exception.
FinanceResult(out, sends, errors, file, entered, left) ==
    [op |-> "finance_info", out |-> out, sends |-> sends, errors |-> errors,
     file |-> file, entered |-> entered, left |-> left]

\* Line 207: async with client.run() as agent. The context is outside the
\* try of line 245: if entering it raises, finance_info raises.
FinanceStart(t, entered) ==
    /\ inv[t].op = "idle"
    /\ IF entered
       THEN /\ inv' = [inv EXCEPT ![t] =
                         [op |-> "finance_info", pc |-> "send", attempt |-> 0,
                          sends |-> 0, errors |-> <<>>, response |-> "none",
                          file |-> FALSE, result |-> "None"]]
            /\ UNCHANGED last
       ELSE /\ last' = FinanceResult("raised", 0, <<>>, FALSE, FALSE, FALSE)
            /\ UNCHANGED inv
    /\ UNCHANGED <<prices, raw_news, summaries>>

\* One turn of the loop of lines 249-366: agent.send returns, and the loop
\* is left, or it raises; the handler reports the error (handled tells
\* whether it got through its debug output without an exception of its own)
\* and retries once if the error is retryable, raises otherwise.
FinanceSend(t, outcome, handled) ==
    /\ inv[t].op = "finance_info"
    /\ inv[t].pc = "send"
    /\ IF outcome \in {"report", "other_text"}
       THEN inv' = [inv EXCEPT ![t].sends = @ + 1,
                               ![t].response = outcome,
                               ![t].pc = "respond"]
       ELSE IF handled /\ Retryable(outcome) /\ inv[t].attempt < 1
       THEN inv' = [inv EXCEPT ![t].sends = @ + 1,
                               ![t].errors = Append(@, outcome),
                               ![t].attempt = @ + 1]
       ELSE inv' = [inv EXCEPT ![t].sends = @ + 1,
                               ![t].errors = Append(@, outcome),
                               ![t].pc = "failed"]
    /\ UNCHANGED <<prices, raw_news, summaries, last>>

\* Lines 385-431: a response with the heading is written to the report
\* file and its path returned; any other response returns None (line 465).
FinanceRespond(t) ==
    /\ inv[t].op = "finance_info"
    /\ inv[t].pc = "respond"
    /\ IF inv[t].response = "report"
       THEN inv' = [inv EXCEPT ![t].file = TRUE, ![t].result = "path", ![t].pc = "leave"]
       ELSE inv' = [inv EXCEPT ![t].result = "None", ![t].pc = "leave"]
    /\ UNCHANGED <<prices, raw_news, summaries, last>>

\* Lines 432-463: the outer handler reports the error and returns None.
FinanceFail(t) ==
    /\ inv[t].op = "finance_info"
    /\ inv[t].pc = "failed"
    /\ inv' = [inv EXCEPT ![t].result = "None", ![t].pc = "leave"]
    /\ UNCHANGED <<prices, raw_news, summaries, last>>

\* The return leaves the context of line 207, whose exit may raise.
FinanceLeave(t, left) ==
    /\ inv[t].op = "finance_info"
    /\ inv[t].pc = "leave"
    /\ last' = FinanceResult(IF left THEN inv[t].result ELSE "raised",
                             inv[t].sends, inv[t].errors, inv[t].file, TRUE, left)
    /\ inv' = [inv EXCEPT ![t] = Idle]
    /\ UNCHANGED <<prices, raw_news, summaries>>

\* ------------------------------------------- news_client.summarize_news

\* The errors a model call raises, by what the two handlers see in the
\* message: a keyword both handlers know (model, rate limit, timeout, ...),
\* a keyword only the handler of the send knows (interrupted, aborted,
\* cancelled), no keyword.
ErrorKinds == {"model", "interrupted", "other"}
Responses == {"report", "other_text"}

\* Lines 177-181: the keywords of the handler of the primary send.
InnerModelError(e) == e \in {"model", "interrupted"}

\* Lines 203-206: the keywords of the outer handler.
OuterModelError(e) == e = "model"

\* What a finished run leaves: that it returned or raised, the models the
\* task was sent to, in order, the errors raised, whether the briefing file
\* was written.
NewsResult(out, sends, errors, file) ==
    [op |-> "summarize_news", out |-> out, sends |-> sends, errors |-> errors,
     file |-> file]

\* Lines 168-171: the context of the primary agent is entered, or entering
\* it raises inside the outer try.
NewsStart(t, enter) ==
    /\ inv[t].op = "idle"
    /\ IF enter = "ok"
       THEN inv' = [inv EXCEPT ![t] =
                      [op |-> "summarize_news", pc |-> "primary", sends |-> <<>>,
                       errors |-> <<>>, response |-> "none", raised |-> "none"]]
       ELSE inv' = [inv EXCEPT ![t] =
                      [op |-> "summarize_news", pc |-> "outer", sends |-> <<>>,
                       errors |-> <<enter>>, response |-> "none", raised |-> enter]]
    /\ UNCHANGED <<prices, raw_news, summaries, last>>

\* Lines 173-199: the send to the primary model returns, or raises: a
\* model-related error goes on to the fallback, any other is re-raised.
PrimarySend(t, outcome) ==
    /\ inv[t].op = "summarize_news"
    /\ inv[t].pc = "primary"
    /\ IF outcome \in Responses
       THEN inv' = [inv EXCEPT ![t].sends = Append(@, "primary"),
                               ![t].response = outcome,
                               ![t].pc = "process"]
       ELSE IF InnerModelError(outcome)
       THEN inv' = [inv EXCEPT ![t].sends = Append(@, "primary"),
                               ![t].errors = Append(@, outcome),
                               ![t].pc = "inner_fallback"]
       ELSE inv' = [inv EXCEPT ![t].sends = Append(@, "primary"),
                               ![t].errors = Append(@, outcome),
                               ![t].raised = outcome,
                               ![t].pc = "outer"]
    /\ UNCHANGED <<prices, raw_news, summaries, last>>

\* Lines 193-196: the send to the fallback model from the handler of the
\* primary send; its exception leaves the handler and the primary context
\* and reaches the outer handler of line 200.
InnerFallbackSend(t, outcome) ==
    /\ inv[t].op = "summarize_news"
    /\ inv[t].pc = "inner_fallback"
    /\ IF outcome \in Responses
       THEN inv' = [inv EXCEPT ![t].sends = Append(@, "fallback"),
                               ![t].response = outcome,
                               ![t].pc = "process"]
       ELSE inv' = [inv EXCEPT ![t].sends = Append(@, "fallback"),
                               ![t].errors = Append(@, outcome),
                               ![t].raised = outcome,
                               ![t].pc = "outer"]
    /\ UNCHANGED <<prices, raw_news, summaries, last>>

\* Lines 200-220: the outer handler starts the fallback for a model-related
\* error and re-raises any other.
OuterHandler(t) ==
    /\ inv[t].op = "summarize_news"
    /\ inv[t].pc = "outer"
    /\ IF OuterModelError(inv[t].raised)
       THEN /\ inv' = [inv EXCEPT ![t].pc = "outer_fallback"]
            /\ UNCHANGED last
       ELSE /\ last' = NewsResult("raised", inv[t].sends, inv[t].errors, FALSE)
            /\ inv' = [inv EXCEPT ![t] = Idle]
    /\ UNCHANGED <<prices, raw_news, summaries>>

\* Lines 212-217: the send to the fallback model from the outer handler; if
\* it raises, the run raises.
OuterFallbackSend(t, outcome) ==
    /\ inv[t].op = "summarize_news"
    /\ inv[t].pc = "outer_fallback"
    /\ IF outcome \in Responses
       THEN /\ inv' = [inv EXCEPT ![t].sends = Append(@, "fallback"),
                                  ![t].response = outcome,
                                  ![t].pc = "process"]
            /\ UNCHANGED last
       ELSE /\ last' = NewsResult("raised", Append(inv[t].sends, "fallback"),
                                  Append(inv[t].errors, outcome), FALSE)
            /\ inv' = [inv EXCEPT ![t] = Idle]
    /\ UNCHANGED <<prices, raw_news, summaries>>

\* Lines 222-249: a response with the heading is written to the briefing
\* file; the run returns.
NewsProcess(t) ==
    /\ inv[t].op = "summarize_news"
    /\ inv[t].pc = "process"
    /\ last' = NewsResult("returned", inv[t].sends, inv[t].errors,
                          inv[t].response = "report")
    /\ inv' = [inv EXCEPT ![t] = Idle]
    /\ UNCHANGED <<prices, raw_news, summaries>>

\* ---------------------------------------------------------- specification

\* Tool calls run to completion, one at a time, on thread 1. The caller's
\* arguments and the collaborators' answers are drawn from the sets of a
\* profile in: the summary collection is let grow to in.max_summaries records.
PriceSteps(t, in) ==
    \/ \E tickers \in in.fetch_tickers : FetchStart(t, tickers)
    \/ \E i \in 1..MaxTickers, answer \in in.market, change \in in.changes :
           FetchConsume(t, i, answer, change)
    \/ FetchReturn(t)

NewsSteps(t, in) ==
    \/ \E tickers \in in.news_tickers, limit \in in.limits :
           DiscoverStart(t, tickers, limit)
    \/ \E i \in 1..MaxTickers, answer \in in.feeds : DiscoverConsume(t, i, answer)
    \/ DiscoverReturn(t)

CurationSteps(t, in) ==
    \/ \E indices \in in.select :
           /\ Len(summaries) + Len(SelectItems(indices, raw_news)) <= in.max_summaries
           /\ SummarizeStart(t, indices)
    \/ \E i \in 1..MaxSel, article \in in.articles, llm \in in.llm :
           SummarizeConsume(t, i, article, llm)
    \/ SummarizeReturn(t)
    \/ \E indices \in in.remove : RemoveSummaries(t, indices)

FeedOf(items) == [raised |-> FALSE, items |-> items]

\* News discovery in full: every ticker list, limit and provider answer.
NewsInputs ==
    [news_tickers |-> TickerLists,
     limits       |-> Limits,
     feeds        |-> Feeds]

\* Curation in full (every index list; articles that download and that do
\* not), over candidate lists of up to two items of one ticker; the session
\* is reset by a price fetch for no tickers.
CurationInputs ==
    [fetch_tickers |-> {<<>>},
     news_tickers  |-> {<<>>, <<"NVDA">>},
     limits        |-> {4},
     feeds         |-> {FeedOf(<<>>), FeedOf(<<ItemPlain>>), FeedOf(<<ItemSameUrl, ItemRecased>>)},
     select        |-> IndexLists,
     articles      |-> ArticleAnswers,
     llm           |-> {"completion"},
     remove        |-> IndexLists,
     max_summaries |-> MaxSummaries]

\* Price fetching in full (every ticker list, answer and change), with one
\* candidate and at most one summary, whose completion succeeds or raises,
\* beside it.
PricesInputs ==
    [fetch_tickers |-> TickerLists,
     market        |-> MarketAnswers,
     changes       |-> Changes,
     news_tickers  |-> {<<>>, <<"NVDA">>},
     limits        |-> {4},
     feeds         |-> {FeedOf(<<>>), FeedOf(<<ItemPlain>>)},
     select        |-> {<<0>>},
     articles      |-> {"text"},
     llm           |-> LlmAnswers,
     remove        |-> {<<>>, <<0>>},
     max_summaries |-> 1]

\* The outcomes of a batch of summaries in full (every index list, every
\* answer of the article fetch and of the text generation), over a candidate
\* list of two items of one ticker, with removals of both ids.
OutcomesInputs ==
    [fetch_tickers |-> {<<>>},
     news_tickers  |-> {<<"NVDA">>},
     limits        |-> {4},
     feeds         |-> {FeedOf(<<ItemSameUrl, ItemRecased>>)},
     select        |-> IndexLists,
     articles      |-> ArticleAnswers,
     llm           |-> LlmAnswers,
     remove        |-> {<<0, 1>>},
     max_summaries |-> MaxSummaries]

\* The limit the docstring of search_news_options allows ("No more than 4").
DocumentedLimit == 4

\* Discovery with limits at and above the documented one, over a provider
\* list of five items that the dedup keeps apart.
LimitInputs ==
    [news_tickers |-> TickerLists,
     limits       |-> {DocumentedLimit, DocumentedLimit + 1},
     feeds        |-> {FeedOf(<<ItemBlank, ItemBlank, ItemBlank, ItemBlank, ItemBlank>>),
                       FeedOf(<<ItemPlain>>), [raised |-> TRUE]}]

\* Removals in full (every index list) over summaries of two candidates of
\* one ticker, which a repeated selection stores twice.
RemovalInputs ==
    [news_tickers  |-> {<<"NVDA">>},
     limits        |-> {4},
     feeds         |-> {FeedOf(<<ItemSameUrl, ItemRecased>>)},
     select        |-> {<<0>>, <<1>>, <<0, 0>>, <<1, 0>>},
     articles      |-> {"text"},
     llm           |-> {"completion"},
     remove        |-> IndexLists,
     max_summaries |-> MaxSummaries]

\* As PoolInputs, with one ticker list, one feed of two candidates and one
\* selection of both.
PoolLiveInputs ==
    [fetch_tickers |-> {<<"NVDA", "AAPL">>},
     market        |-> {"series_1d", "raises"},
     changes       |-> {42},
     news_tickers  |-> {<<"NVDA", "AAPL">>},
     limits        |-> {4},
     feeds         |-> {FeedOf(<<ItemSameUrl, ItemRecased>>)},
     select        |-> {<<0, 1>>},
     articles      |-> {"text"},
     llm           |-> {"completion"},
     max_summaries |-> 2]

\* A list of n copies of x.
Copies(n, x) == [k \in 1..n |-> x]

\* One ticker more than the price executor can be wide, and one selected
\* item more than the summary executor is wide; a fetch of two tickers.
WidthInputs ==
    [fetch_tickers |-> {<<"NVDA", "AAPL">>, Copies(FetchMaxWorkers + 1, "NVDA")},
     market        |-> {"series_1d"},
     changes       |-> {42},
     news_tickers  |-> {<<"NVDA">>},
     limits        |-> {4},
     feeds         |-> {FeedOf(<<ItemPlain>>)},
     select        |-> {<<0>>, Copies(SummarizeMaxWorkers + 1, 0)},
     articles      |-> {"text"},
     llm           |-> {"completion"}]

\* Price fetches for one and for two tickers.
HistoryInputs ==
    [fetch_tickers |-> {<<"NVDA">>, <<"NVDA", "AAPL">>},
     changes       |-> {42}]

\* The four link-bearing fields of a raw item, in the order the code tries
\* them, and the text each carries when it is not missing and not empty.
LinkFields == <<"clickThroughUrl", "canonicalUrl", "link", "url">>
FieldValues(text) == {None, <<>>, text}

\* Every combination of missing, empty and filled link fields, under two
\* titles.
LinkItems ==
    {RawItem(t, click, canon, link, url) :
        t \in {<<"a">>, <<"b">>},
        click \in FieldValues(<<"c">>), canon \in FieldValues(<<"n">>),
        link \in FieldValues(<<"l">>), url \in FieldValues(<<"u">>)}

\* Discovery for two tickers whose provider serves one item of LinkItems.
LinkInputs ==
    [news_tickers |-> {<<"NVDA", "AAPL">>},
     limits       |-> {4},
     feeds        |-> {FeedOf(<<d>>) : d \in LinkItems}]

\* The three batch tools with their pool workers apart from the invoking
\* thread: two futures a call, whose tasks finish in any order.
PoolInputs ==
    [fetch_tickers |-> {<<"NVDA", "AAPL">>},
     market        |-> {"series_1d", "raises"},
     changes       |-> {42},
     news_tickers  |-> {<<"NVDA", "AAPL">>},
     limits        |-> {4},
     feeds         |-> {FeedOf(<<ItemPlain>>), FeedOf(<<ItemSameUrl, ItemRecased>>)},
     select        |-> {<<0>>, <<0, 1>>},
     articles      |-> {"text"},
     llm           |-> {"completion"},
     max_summaries |-> 2]

\* Overlapping calls: a price fetch for two tickers, and beside it one
\* candidate, its summary, removals and reports.
OverlapInputs ==
    [fetch_tickers |-> {<<"NVDA", "AAPL">>},
     market        |-> {"series_1d"},
     changes       |-> {42},
     news_tickers  |-> {<<"NVDA">>},
     limits        |-> {4},
     feeds         |-> {FeedOf(<<ItemPlain>>)},
     select        |-> {<<0>>},
     articles      |-> {"text"},
     llm           |-> {"completion"},
     remove        |-> {<<0>>},
     max_summaries |-> 1]

\* Overlapping discoveries, each for one ticker.
OverlapNewsInputs ==
    [news_tickers |-> {<<"NVDA">>, <<"AAPL">>},
     limits       |-> {4},
     feeds        |-> {FeedOf(<<ItemPlain>>), FeedOf(<<ItemSameUrl, ItemRecased>>)}]

\* Calls of search_news_options only.
NextNews == \E t \in {1} : NewsSteps(t, NewsInputs)

\* Calls of the discovery and curation tools and of the report, and price
\* fetches that return at the empty check.
NextCuration ==
    \E t \in {1} :
        \/ \E tickers \in CurationInputs.fetch_tickers : FetchStart(t, tickers)
        \/ NewsSteps(t, CurationInputs)
        \/ CurationSteps(t, CurationInputs)
        \/ ExportFinalReport(t)

\* Calls of all five tools.
NextPrices ==
    \E t \in {1} :
        \/ PriceSteps(t, PricesInputs)
        \/ NewsSteps(t, PricesInputs)
        \/ CurationSteps(t, PricesInputs)
        \/ ExportFinalReport(t)

\* As NextCuration, over the outcomes of the summaries.
NextOutcomes ==
    \E t \in {1} :
        \/ \E tickers \in OutcomesInputs.fetch_tickers : FetchStart(t, tickers)
        \/ NewsSteps(t, OutcomesInputs)
        \/ CurationSteps(t, OutcomesInputs)
        \/ ExportFinalReport(t)

\* Calls of search_news_options only, over the limits around the documented one.
NextLimits == \E t \in {1} : NewsSteps(t, LimitInputs)

\* Calls of the discovery and curation tools, over the removals.
NextRemoval ==
    \E t \in {1} :
        \/ NewsSteps(t, RemovalInputs)
        \/ CurationSteps(t, RemovalInputs)

\* The tools are plain functions over the module-level SESSION_STATE and take
\* no lock: a host that serves tool calls on more than one thread runs them
\* interleaved. Thread 1 fetches prices while thread 2 calls the other tools.
\* A price fetch on thread 1 with the history requests of its tasks as
\* steps of their own.
NextHistory ==
    \/ \E tickers \in HistoryInputs.fetch_tickers : FetchStart(1, tickers)
    \/ \E i \in 1..MaxTickers, answer \in HistoryAnswers : HistoryFirst(1, i, answer)
    \/ \E i \in 1..MaxTickers, answer \in HistoryAnswers : HistorySecond(1, i, answer)
    \/ \E i \in 1..MaxTickers, change \in HistoryInputs.changes : TaskReturn(1, i, change)
    \/ \E i \in 1..MaxTickers : FetchCollect(1, i)
    \/ FetchReturn(1)

\* Calls with more tasks than their executor has workers, on thread 1.
NextWidth ==
    \/ \E tickers \in WidthInputs.fetch_tickers : FetchStart(1, tickers)
    \/ \E i \in 1..(FetchMaxWorkers + 1) : FetchBegin(1, i)
    \/ \E i \in 1..(FetchMaxWorkers + 1), answer \in WidthInputs.market,
           change \in WidthInputs.changes : FetchFinish(1, i, answer, change)
    \/ FetchReturn(1)
    \/ NewsSteps(1, WidthInputs)
    \/ \E indices \in WidthInputs.select :
           /\ summaries = <<>>
           /\ SummarizeStart(1, indices)
    \/ \E i \in 1..(SummarizeMaxWorkers + 1) : SummarizeBegin(1, i)
    \/ \E i \in 1..(SummarizeMaxWorkers + 1), article \in WidthInputs.articles,
           llm \in WidthInputs.llm : SummarizeFinish(1, i, article, llm)
    \/ SummarizeReturn(1)

\* Runs of finance_info, one after another, on thread 1.
NextFinanceClient ==
    \/ \E entered \in BOOLEAN : FinanceStart(1, entered)
    \/ \E outcome \in SendOutcomes, handled \in BOOLEAN : FinanceSend(1, outcome, handled)
    \/ FinanceRespond(1)
    \/ FinanceFail(1)
    \/ \E left \in BOOLEAN : FinanceLeave(1, left)

\* Runs of summarize_news, one after another, on thread 1.
NextNewsClient ==
    \/ \E enter \in {"ok"} \cup ErrorKinds : NewsStart(1, enter)
    \/ \E outcome \in Responses \cup ErrorKinds : PrimarySend(1, outcome)
    \/ \E outcome \in Responses \cup ErrorKinds : InnerFallbackSend(1, outcome)
    \/ OuterHandler(1)
    \/ \E outcome \in Responses \cup ErrorKinds : OuterFallbackSend(1, outcome)
    \/ NewsProcess(1)

\* Discovery over the items of LinkInputs.
NextLinks == NewsSteps(1, LinkInputs)

\* One call at a time on thread 1; within a batch call the pool workers and
\* the invoking thread interleave.
PoolSteps(in) ==
    \/ \E tickers \in in.fetch_tickers : FetchStart(1, tickers)
    \/ \E i \in 1..MaxTickers, answer \in in.market, change \in in.changes :
           FetchWork(1, i, answer, change)
    \/ \E i \in 1..MaxTickers : FetchCollect(1, i)
    \/ FetchReturn(1)
    \/ \E tickers \in in.news_tickers, limit \in in.limits :
           DiscoverStart(1, tickers, limit)
    \/ \E i \in 1..MaxTickers, answer \in in.feeds : DiscoverWork(1, i, answer)
    \/ \E i \in 1..MaxTickers : DiscoverCollect(1, i)
    \/ DiscoverReturn(1)
    \/ \E indices \in in.select :
           /\ Len(summaries) + Len(SelectItems(indices, raw_news)) <= in.max_summaries
           /\ SummarizeStart(1, indices)
    \/ \E i \in 1..MaxSel, article \in in.articles, llm \in in.llm :
           SummarizeWork(1, i, article, llm)
    \/ \E i \in 1..MaxSel : SummarizeCollect(1, i)
    \/ SummarizeReturn(1)

NextPool == PoolSteps(PoolInputs)

NextPoolLive == PoolSteps(PoolLiveInputs)

NextOverlap ==
    \/ PriceSteps(1, OverlapInputs)
    \/ NewsSteps(2, OverlapInputs)
    \/ CurationSteps(2, OverlapInputs)
    \/ ExportFinalReport(2)

\* Both threads call search_news_options.
NextOverlapNews == \E t \in Threads : NewsSteps(t, OverlapNewsInputs)

SpecNews == Init /\ [][NextNews]_vars
SpecCuration == Init /\ [][NextCuration]_vars
SpecOutcomes == Init /\ [][NextOutcomes]_vars
SpecLimits == Init /\ [][NextLimits]_vars
SpecRemoval == Init /\ [][NextRemoval]_vars
SpecOverlap == Init /\ [][NextOverlap]_vars
SpecOverlapNews == Init /\ [][NextOverlapNews]_vars
SpecPool == Init /\ [][NextPool]_vars
SpecLinks == Init /\ [][NextLinks]_vars
SpecHistory == Init /\ [][NextHistory]_vars
SpecWidth == Init /\ [][NextWidth]_vars
SpecFinanceClient == Init /\ [][NextFinanceClient]_vars
SpecNewsClient == Init /\ [][NextNewsClient]_vars

\* Every collaborator call returns or raises, so a task that has been
\* submitted finishes; the invoking thread, blocked in as_completed with no
\* timeout, goes on as soon as a future is done and returns when none is
\* pending.
PoolFairness ==
    /\ WF_vars(\E i \in 1..MaxTickers, answer \in PoolLiveInputs.market,
                  change \in PoolLiveInputs.changes : FetchWork(1, i, answer, change))
    /\ WF_vars(\E i \in 1..MaxTickers : FetchCollect(1, i))
    /\ WF_vars(FetchReturn(1))
    /\ WF_vars(\E i \in 1..MaxTickers, answer \in PoolLiveInputs.feeds :
                  DiscoverWork(1, i, answer))
    /\ WF_vars(\E i \in 1..MaxTickers : DiscoverCollect(1, i))
    /\ WF_vars(DiscoverReturn(1))
    /\ WF_vars(\E i \in 1..MaxSel, article \in PoolLiveInputs.articles,
                  llm \in PoolLiveInputs.llm : SummarizeWork(1, i, article, llm))
    /\ WF_vars(\E i \in 1..MaxSel : SummarizeCollect(1, i))
    /\ WF_vars(SummarizeReturn(1))

SpecPoolLive == Init /\ [][NextPoolLive]_vars /\ PoolFairness
SpecPrices == Init /\ [][NextPrices]_vars

\* ------------------------------------------------------------- the steps

\* The ids the candidate list and the summary collection hold.
CandidateIds == {raw_news[i].id : i \in 1..Len(raw_news)}
SummaryIds == {summaries[i].id : i \in 1..Len(summaries)}
Symbols == {prices[i].symbol : i \in 1..Len(prices)}

\* A step in which thread t starts a batch tool that goes on to its pool.
Starts(t, op) == inv[t].op = "idle" /\ inv'[t].op = op

\* A step in which thread t's batch tool returns.
Returns(t, op) == inv[t].op = op /\ inv'[t].op = "idle"

\* A step that is a whole call of the tool by thread t: it replies at once,
\* and no batch call starts, moves on or returns in the step.
WholeCall(t, op) == inv[t].op = "idle" /\ inv' = inv /\ last'.op = op

\* Any step of a call of the tool.
StepOf(t, op) == inv[t].op = op \/ inv'[t].op = op \/ WholeCall(t, op)

\* --------------------------------------------------------------------- C1

\* C1: fetch_and_store_prices resets the session as its first action. While
\* the call runs and in the state in which it returns, for every ticker list
\* (the empty one included), the candidate list and the summary collection
\* are empty and prices holds records of this call only: none right after the
\* first step, then one per symbol of the futures consumed so far.
C1_FetchResetsSession ==
    /\ \A t \in Threads :
         inv[t].op = "fetch" =>
           /\ raw_news = <<>>
           /\ summaries = <<>>
           /\ Symbols = {inv[t].tickers[i] : i \in (1..Len(inv[t].tickers)) \ inv[t].pending}
           /\ Len(prices) = Cardinality(Symbols)
    /\ last.op = "fetch" =>
           /\ raw_news = <<>>
           /\ summaries = <<>>
           /\ Symbols = Range(last.tickers)
           /\ Len(prices) = Cardinality(Symbols)

\* A price fetch for two tickers has returned with both records stored.
C1_Witness ==
    /\ last.op = "fetch"
    /\ Len(last.tickers) = 2
    /\ Len(prices) = 2

\* --------------------------------------------------------------------- C2

\* No tool call is in flight.
Quiescent == \A t \in Threads : inv[t].op = "idle"

\* C2 as stated: in every state reached by a sequence of tool calls, the ids
\* of the summaries are ids of the current candidate list.
C2_SummaryIdsAreCandidateIds == Quiescent => SummaryIds \subseteq CandidateIds

\* The step of search_news_options that clears the candidate list.
ClearsCandidates == \E t \in Threads : Starts(t, "discover")

\* C2 amended: the ids of the summaries are ids of the candidate list in the
\* initial state, and every step keeps this so, except the step of
\* search_news_options that clears the candidate list: that step keeps the
\* summaries, so summaries of an earlier discovery round may carry ids the
\* new candidate list does not hold.
C2_OnlyDiscoveryBreaksSubset ==
    [][(SummaryIds \subseteq CandidateIds /\ ~ClearsCandidates)
          => (SummaryIds \subseteq CandidateIds)']_vars

\* Two summaries are stored and both carry ids of the candidate list.
C2_Witness ==
    /\ last.op = "summarize"
    /\ Len(summaries) = 2
    /\ SummaryIds \subseteq CandidateIds

\* --------------------------------------------------------------------- C3

\* The menu lines that the candidates of a list stand for.
MenuOf(news) ==
    [i \in 1..Len(news) |->
       [id |-> news[i].id, ticker |-> news[i].ticker, title |-> news[i].title]]

\* The candidate list is what the call that replied out accepted.
OnlyAcceptedBy(out) ==
    IF out.kind = "menu" THEN MenuOf(raw_news) = out.lines ELSE raw_news = <<>>

\* C3 as stated: whatever its arguments, when search_news_options has
\* returned the candidate list holds only what that call accepted.
C3_EveryDiscoveryClears == last.op = "discover" => OnlyAcceptedBy(last.out)

\* C3 amended: a search_news_options call with a non-empty ticker list clears
\* the previous candidate list, so that when it returns the list holds only
\* the candidates that call accepted; a call with an empty ticker list
\* returns "No tickers provided." and leaves the candidate list as it was.
C3_NonEmptyDiscoveryClears ==
    [][\A t \in Threads :
         /\ Returns(t, "discover") => OnlyAcceptedBy(last'.out)
         /\ WholeCall(t, "discover") =>
              /\ last'.tickers = <<>>
              /\ last'.out = Text("No tickers provided.")
              /\ raw_news' = raw_news]_vars

\* A discovery over two tickers has returned a menu of one candidate.
C3_Witness ==
    /\ last.op = "discover"
    /\ Len(last.tickers) = 2
    /\ last.out.kind = "menu"
    /\ Len(raw_news) = 1

\* --------------------------------------------------------------------- C4

\* C4: no step of search_news_options changes the prices or the summaries,
\* whatever the session holds and whatever the arguments are.
C4_DiscoveryKeepsPricesAndSummaries ==
    [][(\E t \in Threads : StepOf(t, "discover"))
          => (prices' = prices /\ summaries' = summaries)]_vars

\* A discovery has returned candidates beside a stored price and a summary.
C4_Witness ==
    /\ last.op = "discover"
    /\ last.out.kind = "menu"
    /\ prices # <<>>
    /\ summaries # <<>>

\* --------------------------------------------------------------------- C5

\* The normalised form the dedup compares: trimmed and lower-cased.
NormUrl(i) == Lower(Strip(raw_news[i].url))
NormTitle(i) == Lower(Strip(raw_news[i].title))

\* C5 as stated: after search_news_options no two candidates have the same
\* normalised url and no two the same normalised title, blank ones included.
C5_NoTwoAlike ==
    Quiescent =>
      \A i, j \in 1..Len(raw_news) :
        i < j => (NormUrl(i) # NormUrl(j) /\ NormTitle(i) # NormTitle(j))

\* C5 amended: no two candidates have the same non-empty normalised url and
\* no two the same non-empty normalised title, also across tickers; a url or
\* title that normalises to the empty string is never recorded as seen, so
\* several candidates may share it.
C5_NoTwoAlikeUnlessBlank ==
    \A i, j \in 1..Len(raw_news) :
      i < j =>
        /\ NormUrl(i) # <<>> => NormUrl(i) # NormUrl(j)
        /\ NormTitle(i) # <<>> => NormTitle(i) # NormTitle(j)

\* Two tickers each contributed one candidate, one of them with a title that
\* normalisation changes, and a blank item was accepted beside them.
C5_Witness ==
    /\ last.op = "discover"
    /\ Len(raw_news) = 3
    /\ \E i, j, k \in 1..3 :
         /\ raw_news[i].ticker # raw_news[j].ticker
         /\ raw_news[i].title # NormTitle(i)
         /\ NormUrl(j) # <<>>
         /\ NormUrl(k) = <<>>

\* --------------------------------------------------------------------- C6

\* C6: in every reachable state the candidate at list position i (from 0) has
\* id i, so a list of N candidates carries exactly the ids 0..N-1.
C6_IdsAreDensePositions ==
    \A i \in 1..Len(raw_news) : raw_news[i].id = i - 1

\* Four candidates are listed.
C6_Witness ==
    /\ last.op = "discover"
    /\ Len(raw_news) = 4
    /\ CandidateIds = 0..3

\* --------------------------------------------------------------------- C7

\* C7: remove_news_summaries([]) changes none of the three collections and
\* returns the ids of the summaries in collection order.
C7_EmptyRemovalIsRead ==
    [][\A t \in Threads :
         (WholeCall(t, "remove") /\ last'.indices = <<>>) =>
           /\ prices' = prices
           /\ raw_news' = raw_news
           /\ summaries' = summaries
           /\ last'.out.kind = "ids"
           /\ last'.out.ids = [i \in 1..Len(summaries) |-> summaries[i].id]]_vars

\* The peek has returned the ids of two summaries that are not in id order.
C7_Witness ==
    /\ last.op = "remove"
    /\ last.indices = <<>>
    /\ last.out.ids = <<1, 0>>
    /\ Len(summaries) = 2

\* --------------------------------------------------------------------- C8

\* C8: remove_news_summaries(L) with a non-empty L leaves exactly the records
\* whose id is not in L, in their order, and returns their ids in that order;
\* an id of L that matches no record changes nothing; prices and candidates
\* are not touched.
C8_RemovalFiltersById ==
    [][\A t \in Threads :
         (WholeCall(t, "remove") /\ last'.indices # <<>>) =>
           LET L == {last'.indices[k] : k \in 1..Len(last'.indices)}
               kept == SelectSeq(summaries, LAMBDA r : r.id \notin L)
           IN  /\ summaries' = kept
               /\ last'.out.kind = "ids"
               /\ last'.out.ids = [i \in 1..Len(kept) |-> kept[i].id]
               /\ (L \cap SummaryIds = {} => summaries' = summaries)
               /\ prices' = prices
               /\ raw_news' = raw_news]_vars

\* A removal of two ids, one of which matched nothing, left the summary with
\* id 1 in place.
C8_Witness ==
    /\ last.op = "remove"
    /\ last.indices = <<0, -1>>
    /\ last.out.ids = <<1>>
    /\ Len(summaries) = 1

\* --------------------------------------------------------------------- C9

\* How often x occurs in the sequence s.
Count(s, x) == Cardinality({k \in 1..Len(s) : s[k] = x})

\* C9: the records summarize_selected_indices returns are one per requested
\* id that the candidate list holds (as often as it was requested), each
\* with that id; an id the list does not hold, a negative one included,
\* yields no record.
C9_ExactlyTheValidIds ==
    (last.op = "summarize" /\ last.out.kind = "records") =>
      LET got == [i \in 1..Len(last.out.records) |-> last.out.records[i].id]
      IN  /\ \A x \in CandidateIds : Count(got, x) = Count(last.indices, x)
          /\ \A i \in 1..Len(got) : got[i] \in CandidateIds
          /\ Len(got) =
               Cardinality({k \in 1..Len(last.indices) : last.indices[k] \in CandidateIds})

\* A request of a negative id and a valid one returned one record.
C9_Witness ==
    /\ last.op = "summarize"
    /\ last.indices = <<-1, 1>>
    /\ last.out.kind = "records"
    /\ Len(last.out.records) = 1
    /\ last.out.records[1].id = 1

\* -------------------------------------------------------------------- C10

\* C10: summarize_selected_indices goes on to its pool only if a requested id
\* is in the candidate list; otherwise it replies "Invalid indices
\* provided." at once and changes none of the three collections.
C10_NoValidIdFails ==
    [][\A t \in Threads :
         /\ Starts(t, "summarize") =>
              \E k \in 1..Len(inv'[t].indices) : inv'[t].indices[k] \in CandidateIds
         /\ WholeCall(t, "summarize") =>
              /\ \A k \in 1..Len(last'.indices) : last'.indices[k] \notin CandidateIds
              /\ last'.out = Text("Invalid indices provided.")
              /\ prices' = prices
              /\ raw_news' = raw_news
              /\ summaries' = summaries]_vars

\* A request of two ids, neither in the non-empty candidate list, failed.
C10_Witness ==
    /\ last.op = "summarize"
    /\ last.out = Text("Invalid indices provided.")
    /\ Len(last.indices) = 2
    /\ raw_news # <<>>

\* -------------------------------------------------------------------- C11

\* C11: summarize_selected_indices is additive. No step of the call changes
\* the prices or the candidate list, no step before the return changes the
\* summaries, and the return leaves the collection as it was before the call
\* followed by the records the call returns.
C11_SummarizeIsAdditive ==
    [][\A t \in Threads :
         /\ StepOf(t, "summarize") => (prices' = prices /\ raw_news' = raw_news)
         /\ (StepOf(t, "summarize") /\ ~Returns(t, "summarize")) =>
              summaries' = summaries
         /\ Returns(t, "summarize") =>
              /\ last'.out.kind = "records"
              /\ summaries' = summaries \o last'.out.records
              /\ SubSeq(summaries', 1, Len(summaries)) = summaries]_vars

\* A call has returned one record, stored behind a summary of an earlier call.
C11_Witness ==
    /\ last.op = "summarize"
    /\ last.out.kind = "records"
    /\ Len(last.out.records) = 1
    /\ Len(summaries) = 2
    /\ summaries[2] = last.out.records[1]

\* -------------------------------------------------------------------- C12

\* The symbols of the Market Data lines of a document.
LineSymbols(doc) == {doc.market[i].ticker : i \in 1..Len(doc.market)}

\* C12 as stated: export_final_report right after fetch_and_store_prices(T)
\* has exactly one Market Data line per element of T, also when T repeats a
\* symbol.
C12_OneLinePerElement ==
    [][\A t \in Threads :
         (last.op = "fetch" /\ WholeCall(t, "report")) =>
           Len(last'.out.market) = Len(last.tickers)]_vars

\* C12 amended: export_final_report right after fetch_and_store_prices(T)
\* has exactly one Market Data line per distinct symbol of T: every symbol of
\* T has a line, no line is of another symbol, and no symbol has two lines,
\* so a list that repeats a symbol yields fewer lines than it has elements.
C12_OneLinePerSymbol ==
    [][\A t \in Threads :
         (last.op = "fetch" /\ WholeCall(t, "report")) =>
           /\ LineSymbols(last'.out) = Range(last.tickers)
           /\ Len(last'.out.market) = Cardinality(Range(last.tickers))]_vars

\* The report shows one line for each of the two symbols fetched.
C12_Witness ==
    /\ last.op = "report"
    /\ Len(last.out.market) = 2
    /\ LineSymbols(last.out) = Tickers
    /\ Symbols = Tickers

\* -------------------------------------------------------------------- C13

\* The status values of a price record.
Statuses == {"Active", "No Data", "Error"}

\* C13: when fetch_and_store_prices(T) has returned for a non-empty T, the
\* symbols of prices are exactly the distinct symbols of T, whatever an
\* earlier call stored, with one record per symbol and a status of Active,
\* No Data or Error in each.
C13_FetchReplacesPrices ==
    (last.op = "fetch" /\ last.tickers # <<>>) =>
      /\ Symbols = Range(last.tickers)
      /\ \A i, j \in 1..Len(prices) : prices[i].symbol = prices[j].symbol => i = j
      /\ \A i \in 1..Len(prices) : prices[i].status \in Statuses

\* A fetch that names AAPL twice has returned and prices holds one record.
C13_Witness ==
    /\ last.op = "fetch"
    /\ last.tickers = <<"AAPL", "AAPL">>
    /\ Len(prices) = 1
    /\ prices[1].symbol = "AAPL"

\* -------------------------------------------------------------------- C14

\* A step of the as_completed loop of fetch_and_store_prices on thread t.
ConsumesPrice(t) == inv[t].op = "fetch" /\ inv'[t].op = "fetch"

\* C14: a market-data call that raises yields a record of that ticker with
\* status Error and the exception's message; storing the record of one
\* future leaves the records of the other symbols as they are; and the call
\* returns a quick view with one entry per element of T, every symbol of T
\* having its record.
C14_PriceFailureIsIsolated ==
    /\ [](\A tk \in Tickers, c \in Changes :
            FetchSingleTicker(tk, "raises", c)
              = [symbol |-> tk, status |-> "Error", error |-> "exception"])
    /\ []((last.op = "fetch" /\ last.out.kind = "quickview") =>
            /\ Len(last.out.entries) = Len(last.tickers)
            /\ Range(last.tickers) \subseteq Symbols)
    /\ [][\A t \in Threads :
            ConsumesPrice(t) =>
              \E i \in inv[t].pending :
                /\ inv'[t].pending = inv[t].pending \ {i}
                /\ inv[t].tickers[i] \in {prices'[k].symbol : k \in 1..Len(prices')}
                /\ \A k \in 1..Len(prices) :
                     prices[k].symbol # inv[t].tickers[i] => prices'[k] = prices[k]]_vars

\* A fetch of two tickers has returned: one record is an Error with the
\* exception's message, the other is Active.
C14_Witness ==
    /\ last.op = "fetch"
    /\ last.out.kind = "quickview"
    /\ Len(prices) = 2
    /\ \E i, j \in 1..2 :
         /\ prices[i].status = "Error"
         /\ prices[i].error = "exception"
         /\ prices[j].status = "Active"

\* -------------------------------------------------------------------- C15

\* The summary texts of the two failure paths of process_item.
ExtractionFailed == "Failed to fetch content: Error: Failed to download page."
SummarizationFailed == "Error: exception"

\* A step of the as_completed loop of summarize_selected_indices on thread t.
ConsumesSummary(t) == inv[t].op = "summarize" /\ inv'[t].op = "summarize"

\* C15: for every candidate, an extraction failure and a summarization
\* failure each yield a record of that candidate whose summary states the
\* failure; collecting the record of one future leaves the records collected
\* before it as they are; and the call returns and appends one record per
\* valid selected item, whatever the outcomes of the items were.
C15_SummaryFailureIsIsolated ==
    /\ [](\A i \in 1..Len(raw_news) :
            /\ \A llm \in LlmAnswers :
                 /\ ProcessItem(raw_news[i], "no_download", llm).summary = ExtractionFailed
                 /\ ProcessItem(raw_news[i], "no_download", llm).id = raw_news[i].id
            /\ ProcessItem(raw_news[i], "text", "raises").summary = SummarizationFailed
            /\ ProcessItem(raw_news[i], "text", "raises").id = raw_news[i].id
            /\ ProcessItem(raw_news[i], "text", "completion").summary = "completion")
    /\ []((last.op = "summarize" /\ last.out.kind = "records") =>
            /\ Len(last.out.records) = Len(SelectItems(last.indices, raw_news))
            /\ \A k \in 1..Len(last.out.records) :
                 last.out.records[k].summary
                   \in {ExtractionFailed, SummarizationFailed, "completion"})
    /\ [][\A t \in Threads :
            /\ ConsumesSummary(t) =>
                 \E i \in inv[t].pending :
                   /\ inv'[t].pending = inv[t].pending \ {i}
                   /\ Len(inv'[t].new_summaries) = Len(inv[t].new_summaries) + 1
                   /\ SubSeq(inv'[t].new_summaries, 1, Len(inv[t].new_summaries))
                        = inv[t].new_summaries
                   /\ inv'[t].new_summaries[Len(inv'[t].new_summaries)].id
                        = inv[t].selected_items[i].id
            /\ Returns(t, "summarize") =>
                 Len(summaries') = Len(summaries) + Len(inv[t].selected_items)]_vars

\* A call over two items has returned: one record states a failure, the
\* other carries a completion.
C15_Witness ==
    /\ last.op = "summarize"
    /\ last.out.kind = "records"
    /\ Len(last.out.records) = 2
    /\ \E i, j \in 1..2 :
         /\ last.out.records[i].summary \in {ExtractionFailed, SummarizationFailed}
         /\ last.out.records[j].summary = "completion"
         /\ last.out.records[i].id # last.out.records[j].id

\* -------------------------------------------------------------------- C16

\* The fields of a summary record.
SummaryFields == {"id", "ticker", "title", "summary"}

\* C16 as stated: every record summarize_selected_indices returns and stores
\* carries id, ticker, title and summary, with id, ticker and title those of
\* the candidate it was made from.
C16_RecordsCarryFourFields ==
    (last.op = "summarize" /\ last.out.kind = "records") =>
      \A k \in 1..Len(last.out.records) :
        LET rec == last.out.records[k]
            src == raw_news[rec.id + 1]
        IN  /\ DOMAIN rec = SummaryFields
            /\ rec.id = src.id
            /\ rec.ticker = src.ticker
            /\ rec.title = src.title

\* -------------------------------------------------------------------- C17

\* C17: export_final_report changes none of the three collections; its
\* document is the function Report of the session, so a second call with no
\* mutating call between returns the same document; the document starts with
\* the header.
C17_ReportIsPure ==
    /\ [](last.op = "report" =>
            /\ last.out = Report
            /\ last.out.header = "# Daily Market Pulse")
    /\ [][\A t \in Threads :
            WholeCall(t, "report") =>
              /\ prices' = prices
              /\ raw_news' = raw_news
              /\ summaries' = summaries
              /\ (last.op = "report" => last'.out = last.out)]_vars

\* A report has been rendered over a session with prices, candidates and
\* summaries.
C17_Witness ==
    /\ last.op = "report"
    /\ prices # <<>>
    /\ raw_news # <<>>
    /\ summaries # <<>>
    /\ Len(last.out.market) = Len(prices)
    /\ Len(last.out.news) = Len(summaries)

\* -------------------------------------------------------------------- C18

\* C18: the Key Developments section has one block per summary record, in
\* the order of the collection, each with the id, ticker and summary of its
\* record; the collection's order is that of the calls, and within a call
\* that in which the futures completed; the placeholder line is there if and
\* only if the collection is empty.
C18_OneBlockPerSummary ==
    /\ [](last.op = "report" =>
            /\ Len(last.out.news) = Len(summaries)
            /\ \A i \in 1..Len(summaries) :
                 /\ last.out.news[i].ref = summaries[i].id
                 /\ last.out.news[i].ticker = summaries[i].ticker
                 /\ last.out.news[i].summary = summaries[i].summary
            /\ (last.out.placeholder <=> summaries = <<>>))
    /\ [][\A t \in Threads :
            Returns(t, "summarize") =>
              summaries' = summaries \o inv[t].new_summaries]_vars

\* The report lists two blocks in append order, which is not id order.
C18_Witness ==
    /\ last.op = "report"
    /\ Len(last.out.news) = 2
    /\ last.out.news[1].ref = 1
    /\ last.out.news[2].ref = 0
    /\ ~last.out.placeholder

\* -------------------------------------------------------------------- C19

\* C19: a step that is not one of fetch_and_store_prices leaves the prices
\* as they are, and does not empty the candidate list and the summary
\* collection together.
C19_OnlyFetchWritesPrices ==
    [][(\E t \in Threads : StepOf(t, "fetch"))
         \/ /\ prices' = prices
            /\ ~(/\ raw_news # <<>>
                 /\ summaries # <<>>
                 /\ raw_news' = <<>>
                 /\ summaries' = <<>>)]_vars

\* With a price stored, a removal has emptied the summary collection and
\* the candidates are still listed.
C19_Witness ==
    /\ last.op = "remove"
    /\ last.indices # <<>>
    /\ prices # <<>>
    /\ raw_news # <<>>
    /\ summaries = <<>>

\* -------------------------------------------------------------------- C20

\* C20: remove_news_summaries with a non-empty list leaves no record whose id
\* is in the list, however few records remain: when the list holds the ids of
\* all records, the collection is empty after the call.
C20_RemovalHasNoMinimum ==
    [][\A t \in Threads :
         (WholeCall(t, "remove") /\ last'.indices # <<>>) =>
           /\ \A i \in 1..Len(summaries') : summaries'[i].id \notin Range(last'.indices)
           /\ (SummaryIds \subseteq Range(last'.indices) => summaries' = <<>>)
           /\ Len(summaries') =
                Cardinality({i \in 1..Len(summaries) :
                               summaries[i].id \notin Range(last'.indices)})]_vars

\* A removal of both ids has left the summary collection empty while the two
\* candidates they came from are still listed.
C20_Witness ==
    /\ last.op = "remove"
    /\ last.indices = <<0, 1>>
    /\ last.out.ids = <<>>
    /\ summaries = <<>>
    /\ Len(raw_news) = 2

\* -------------------------------------------------------------------- C21

\* A step of the as_completed loop of search_news_options on thread t.
ConsumesNews(t) == inv[t].op = "discover" /\ inv'[t].op = "discover"

\* C21 as stated: whatever the limit argument is, zero and negative values
\* included, the candidates that the task of one ticker adds to the list are
\* at most limit many (none for a limit of zero or below).
C21_AtMostLimitPerTicker ==
    [][\A t \in Threads :
         ConsumesNews(t) =>
           Len(raw_news') - Len(raw_news) <= Max(inv[t].limit, 0)]_vars

\* -------------------------------------------------------------------- C22

\* C22 as stated: whatever the limit argument is, the task of one ticker adds
\* no more than 4 candidates to the list.
C22_AtMostFourPerTicker ==
    [][\A t \in Threads :
         ConsumesNews(t) => Len(raw_news') - Len(raw_news) <= DocumentedLimit]_vars

\* -------------------------------------------------------------------- C23

\* Two items are duplicates of one another: they share a non-empty trimmed,
\* lower-cased url or title.
Alike(a, b) ==
    \/ Lower(Strip(a.url)) # <<>> /\ Lower(Strip(a.url)) = Lower(Strip(b.url))
    \/ Lower(Strip(a.title)) # <<>> /\ Lower(Strip(a.title)) = Lower(Strip(b.title))

\* The candidate list once thread t's loop has gone through the first q of
\* the items of a completed future.
ListAfter(t, items, q) ==
    DedupLoop(DedupState(raw_news, inv[t].global_index, inv[t].seen_urls,
                         inv[t].seen_titles, inv[t].menu_output),
              SubSeq(items, 1, q)).raw_news

\* The q-th of the items is accepted.
AcceptedAt(t, items, q) ==
    Len(ListAfter(t, items, q)) > Len(ListAfter(t, items, q - 1))

\* Ids follow completion order: the turn of the loop for one future keeps
\* the list so far and appends candidates of that future's ticker under the
\* next ids.
IdsFollowCompletion ==
    [][\A t \in Threads :
         ConsumesNews(t) =>
           /\ SubSeq(raw_news', 1, Len(raw_news)) = raw_news
           /\ \E i \in inv[t].pending :
                /\ inv'[t].pending = inv[t].pending \ {i}
                /\ \A k \in (Len(raw_news) + 1)..Len(raw_news') :
                     /\ raw_news'[k].id = k - 1
                     /\ raw_news'[k].ticker = inv[t].tickers[i]]_vars

\* C23 as stated: ids follow completion order and, within a ticker, provider
\* order; and of two items that are duplicates of one another the later one
\* never survives.
C23_SurvivorIsFirst ==
    /\ IdsFollowCompletion
    /\ [](\A t \in Threads :
            inv[t].op = "discover" =>
              \A i \in inv[t].pending, feed \in Feeds :
                LET items == FetchSingleNews(inv[t].tickers[i], feed, inv[t].limit)
                IN  \A p, q \in 1..Len(items) :
                      (p < q /\ Alike(items[p], items[q])) => ~AcceptedAt(t, items, q))

\* C23 amended: ids follow completion order and, within a ticker, provider
\* order; an item is rejected exactly when a candidate accepted before it is
\* a duplicate of it. A rejected item blocks nothing: of two items that share
\* a title, the later one is accepted when the earlier one was rejected for
\* its url (and likewise with url and title exchanged).
C23_AcceptanceOrder ==
    /\ IdsFollowCompletion
    /\ [](\A t \in Threads :
            inv[t].op = "discover" =>
              \A i \in inv[t].pending, feed \in Feeds :
                LET items == FetchSingleNews(inv[t].tickers[i], feed, inv[t].limit)
                IN  \A q \in 1..Len(items) :
                      LET before == ListAfter(t, items, q - 1)
                          entry == [id |-> Len(before), ticker |-> items[q].ticker,
                                    title |-> items[q].title, url |-> items[q].url]
                      IN  /\ AcceptedAt(t, items, q) <=>
                               ~\E k \in 1..Len(before) : Alike(before[k], items[q])
                          /\ ListAfter(t, items, q) =
                               IF AcceptedAt(t, items, q)
                               THEN Append(before, entry) ELSE before)

\* The ticker named second completed first: its candidate has id 0 and the
\* candidate of the ticker named first has id 1.
C23_Witness ==
    /\ last.op = "discover"
    /\ last.tickers = <<"NVDA", "AAPL">>
    /\ Len(raw_news) = 2
    /\ raw_news[1].ticker = "AAPL"
    /\ raw_news[1].id = 0
    /\ raw_news[2].ticker = "NVDA"
    /\ raw_news[2].id = 1

\* -------------------------------------------------------------------- C28

\* How many records of a list carry the id x.
WithId(recs, x) == Cardinality({k \in 1..Len(recs) : recs[k].id = x})

\* C28 as stated: in every reachable state no two records of the summary
\* collection have the same id.
C28_SummaryIdsDistinct ==
    \A i, j \in 1..Len(summaries) : summaries[i].id = summaries[j].id => i = j

\* C28 amended: the collection may hold several records of one id. The
\* return of summarize_selected_indices adds, for every id, as many records
\* as the request names that id validly, whatever the collection holds
\* already; remove_news_summaries with a non-empty list leaves no record of a
\* listed id, so records that share an id are removed together.
C28_IdsRepeat ==
    [][\A t \in Threads :
         /\ Returns(t, "summarize") =>
              \A x \in Indices :
                WithId(summaries', x) =
                  WithId(summaries, x) + WithId(inv[t].selected_items, x)
         /\ (WholeCall(t, "remove") /\ last'.indices # <<>>) =>
              \A x \in Range(last'.indices) : WithId(summaries', x) = 0]_vars

\* The collection holds two records of id 0 while one candidate is listed.
C28_Witness ==
    /\ Len(summaries) = 2
    /\ summaries[1].id = 0
    /\ summaries[2].id = 0
    /\ Len(raw_news) = 1
    /\ last.op = "summarize"

\* -------------------------------------------------------------------- C29

\* The summary collection after remove_news_summaries(L) on sums.
AfterRemoval(sums, L) == IF L = <<>> THEN sums ELSE RemoveFrom(sums, L)

\* The ids of a set as a list, in ascending order.
RECURSIVE ListOf(_)
ListOf(S) ==
    IF S = {} THEN <<>>
    ELSE LET m == CHOOSE x \in S : \A y \in S : x <= y
         IN  <<m>> \o ListOf(S \ {m})

\* C29: a call remove_news_summaries(B) leaves AfterRemoval of the
\* collection; for every list A (one list for each set of ids: a removal
\* reads its list as a set), removing A after that call gives what removing B
\* after A gives and, when both are non-empty, what one removal of the ids of
\* A and B gives; removing B once more changes nothing.
C29_RemovalComposes ==
    [][\A t \in Threads :
         WholeCall(t, "remove") =>
           LET B == last'.indices
           IN  /\ summaries' = AfterRemoval(summaries, B)
               /\ AfterRemoval(summaries', B) = summaries'
               /\ \A S \in SUBSET Indices :
                    LET A == ListOf(S)
                    IN  /\ AfterRemoval(summaries', A)
                             = AfterRemoval(AfterRemoval(summaries, A), B)
                        /\ AfterRemoval(AfterRemoval(summaries, A), A)
                             = AfterRemoval(summaries, A)
                        /\ (A # <<>> /\ B # <<>>) =>
                             /\ AfterRemoval(summaries', A) = AfterRemoval(summaries, B \o A)
                             /\ AfterRemoval(summaries', A) = AfterRemoval(summaries, A \o B)]_vars

\* A removal of id 1 has left the two records of id 0.
C29_Witness ==
    /\ last.op = "remove"
    /\ last.indices = <<1>>
    /\ last.out.ids = <<0, 0>>
    /\ Len(summaries) = 2

\* -------------------------------------------------------------------- C30

\* C30: when search_news_options has returned for a non-empty ticker list,
\* its reply is "No news found." exactly when the candidate list is empty;
\* otherwise the menu has one line per candidate in list order, and the line
\* of id i names the candidate that summarize_selected_indices([i]) selects
\* and makes its record of; every record that summarize_selected_indices
\* returns has the id and the ticker of the candidate at that position.
C30_MenuNamesTheCandidates ==
    /\ []((last.op = "discover" /\ last.tickers # <<>>) =>
            /\ (last.out = Text("No news found.")) <=> (raw_news = <<>>)
            /\ raw_news # <<>> =>
                 /\ last.out.kind = "menu"
                 /\ Len(last.out.lines) = Len(raw_news)
                 /\ \A p \in 1..Len(raw_news) :
                      LET line == last.out.lines[p]
                          picked == SelectItems(<<line.id>>, raw_news)
                      IN  /\ line.id = p - 1
                          /\ picked = <<raw_news[p]>>
                          /\ line.ticker = picked[1].ticker
                          /\ line.title = picked[1].title
                          /\ \A article \in ArticleAnswers, llm \in LlmAnswers :
                               /\ ProcessItem(picked[1], article, llm).id = line.id
                               /\ ProcessItem(picked[1], article, llm).ticker = line.ticker)
    /\ [][\A t \in Threads :
            Returns(t, "summarize") =>
              \A k \in 1..Len(last'.out.records) :
                LET rec == last'.out.records[k]
                IN  /\ rec.id \in CandidateIds
                    /\ rec.ticker = raw_news[rec.id + 1].ticker
                    /\ rec.id \in Range(inv[t].indices)]_vars

\* After a menu of two lines, a request of id 1 has returned the record of
\* the second candidate.
C30_Witness ==
    /\ last.op = "summarize"
    /\ last.indices = <<1>>
    /\ last.out.kind = "records"
    /\ Len(raw_news) = 2
    /\ last.out.records[1].id = 1
    /\ last.out.records[1].ticker = raw_news[2].ticker

\* -------------------------------------------------------------------- C24

\* C24 as stated: a report rendered while a price fetch is in flight shows
\* the complete price set of the previous fetch (none, or one line per ticker
\* of that fetch) or the complete set of the running one, and no summary
\* whose candidate the session no longer lists.
C24_ReportSeesWholeBatch ==
    last.op = "report" =>
      \A t \in Threads :
        inv[t].op = "fetch" =>
          /\ LineSymbols(last.out) \in {{}, Range(inv[t].tickers)}
          /\ \A k \in 1..Len(last.out.news) : last.out.news[k].ref \in CandidateIds

\* -------------------------------------------------------------------- C25

\* C25 as stated: the records that summarize_selected_indices appends are
\* made from candidates the session lists at that moment, also when a price
\* fetch has reset the session while the call was in flight.
C25_NoSummaryOfAnEarlierEpoch ==
    [][\A t \in Threads :
         Returns(t, "summarize") =>
           \A k \in 1..Len(inv[t].selected_items) :
             inv[t].selected_items[k] \in Range(raw_news)]_vars

\* -------------------------------------------------------------------- C26

\* C26 as stated: overlapping discoveries included, the candidate at
\* position i has id i whenever no call is in flight (so the ids are pairwise
\* distinct), and the list holds candidates of one call only: when a call
\* appends, the list holds what that call accepted and nothing else.
C26_OverlappingDiscoveriesKeepIds ==
    /\ [](Quiescent =>
            /\ \A i, j \in 1..Len(raw_news) : raw_news[i].id = raw_news[j].id => i = j
            /\ \A i \in 1..Len(raw_news) : raw_news[i].id = i - 1)
    /\ [][\A t \in Threads :
            ConsumesNews(t) =>
              /\ MenuOf(raw_news) = inv[t].menu_output
              /\ MenuOf(raw_news') = inv'[t].menu_output]_vars

\* -------------------------------------------------------------------- C27

\* A step in which a pool worker of thread t's call finishes its task.
WorkerStep(t) == inv'[t].op = inv[t].op /\ DoneOf(inv'[t]) # DoneOf(inv[t])

\* The locals of a call that its invoking thread owns: pending futures,
\* dedup sets, id counter, menu, collected records.
Locals(call) == [k \in DOMAIN call \ {"done"} |-> call[k]]

SessionWritten == <<prices, raw_news, summaries>>' # <<prices, raw_news, summaries>>

\* The invoking thread takes the result of exactly one done future of t's
\* call.
CollectsOne(t) ==
    \E i \in DOMAIN DoneOf(inv[t]) \cap inv[t].pending :
        inv'[t].pending = inv[t].pending \ {i}

\* A worker's step leaves the session and the locals of its call alone.
WorkersWriteNothing ==
    \A t \in Threads :
        WorkerStep(t) => ~SessionWritten /\ Locals(inv'[t]) = Locals(inv[t])

\* C27 as stated: within a batch call no pool worker writes the session or
\* the call's locals, and every step that writes prices, candidates or
\* summaries is the invoking thread's and writes the outcome of one
\* completed result: it takes one done future, or it is the return and the
\* summary collection grows by one record at most.
C27_OneResultPerWrite ==
    /\ [][WorkersWriteNothing]_vars
    /\ [][\A t \in Threads :
            (inv[t].op \in {"fetch", "discover", "summarize"} /\ SessionWritten) =>
              /\ ~WorkerStep(t)
              /\ \/ CollectsOne(t) /\ summaries' = summaries
                 \/ /\ Returns(t, "summarize")
                    /\ Len(summaries') <= Len(summaries) + 1]_vars

\* C27, amended: within a batch call no pool worker writes the session or
\* the call's locals (dedup sets and id counter included). Prices and
\* candidates are written by the invoking thread as it takes one done future
\* at a time; summaries are written once, by the invoking thread, in the
\* step in which the call returns, after every future has been taken.
C27_OnlyInvokingThreadWrites ==
    /\ [][WorkersWriteNothing]_vars
    /\ [][\A t \in Threads :
            (inv[t].op \in {"fetch", "discover", "summarize"} /\ SessionWritten) =>
              /\ ~WorkerStep(t)
              /\ \/ CollectsOne(t) /\ summaries' = summaries
                 \/ /\ Returns(t, "summarize")
                    /\ inv[t].pending = {}
                    /\ summaries' = summaries \o inv[t].new_summaries
                    /\ prices' = prices /\ raw_news' = raw_news]_vars

\* A discovery whose invoking thread has appended the candidates of one
\* future while a worker has finished the other, not yet taken.
C27_Witness ==
    \E t \in Threads :
        /\ inv[t].op = "discover"
        /\ raw_news # <<>>
        /\ \E i \in DOMAIN DoneOf(inv[t]) \cap inv[t].pending : DoneOf(inv[t])[i] # <<>>

\* -------------------------------------------------------------------- C31

\* A raw item has a link: one of its four link-bearing fields is filled.
HasLink(data) == \E k \in 1..Len(LinkFields) : Truthy(data[LinkFields[k]])

\* A raw item has a title of its own: the key is there and its text is not
\* the default.
HasTitle(data) == data.title # None /\ data.title # NoTitle

\* An item that carries the default title as its text.
ItemDefaultTitle == RawItem(NoTitle, <<"x">>, None, None, None)

\* C31: every candidate has a non-empty link and a title other than
\* 'No Title'; fetch_single_news keeps a raw item if it has a link and a
\* title of its own and drops it otherwise.
C31_CandidatesHaveLinkAndTitle ==
    /\ \A k \in 1..Len(raw_news) :
           Truthy(raw_news[k].url) /\ raw_news[k].title # NoTitle
    /\ \A data \in RawItems \cup {ItemDefaultTitle} :
           Len(FetchSingleNews("NVDA", FeedOf(<<data>>), DocumentedLimit))
             = IF HasLink(data) /\ HasTitle(data) THEN 1 ELSE 0

\* A discovery listed a candidate whose title is the empty text and whose
\* link is one blank: both pass the test.
C31_Witness ==
    /\ last.op = "discover"
    /\ \E k \in 1..Len(raw_news) : raw_news[k].title = <<>> /\ raw_news[k].url = <<" ">>

\* -------------------------------------------------------------------- C32

\* The first filled field of a raw item that has a link, in the order of
\* LinkFields.
FirstNonEmpty(data) ==
    LET filled == {k \in 1..Len(LinkFields) : Truthy(data[LinkFields[k]])}
    IN  data[LinkFields[CHOOSE k \in filled : \A j \in filled : k <= j]]

\* C32: for every combination of missing, empty and filled link fields the
\* link of an item is its first filled field in the order clickThroughUrl,
\* canonicalUrl, link, url (and no link when none is filled); the url of
\* every candidate a discovery appends is such a first field of an item the
\* provider serves.
C32_LinkIsFirstNonEmpty ==
    /\ [](\A data \in LinkItems :
             IF HasLink(data) THEN LinkOf(data) = FirstNonEmpty(data)
             ELSE ~Truthy(LinkOf(data)))
    /\ [][\A t \in Threads :
            ConsumesNews(t) =>
              \A k \in (Len(raw_news) + 1)..Len(raw_news') :
                \E data \in LinkItems :
                  /\ HasLink(data)
                  /\ raw_news'[k].title = data.title
                  /\ raw_news'[k].url = FirstNonEmpty(data)]_vars

\* A discovery listed two candidates, one with the link of its link field
\* and one with the link of its url field.
C32_Witness ==
    /\ last.op = "discover"
    /\ Len(raw_news) = 2
    /\ raw_news[1].url = <<"l">>
    /\ raw_news[2].url = <<"u">>

\* -------------------------------------------------------------------- C33

\* The entry the quick view shows for a stored record.
EntryOf(rec) ==
    IF rec.status = "Active" THEN [ticker |-> rec.symbol, pct |-> rec.change]
    ELSE [ticker |-> rec.symbol, status |-> rec.status]

\* C33: the quick view fetch_and_store_prices(T) returns has one entry per
\* element of T (a repeated symbol has as many entries as T repeats it), in
\* the order in which the futures completed; the entry of a future shows the
\* percent change of the record stored for it if the record is Active and
\* its status otherwise. For an empty T the call answers
\* 'No tickers provided.' at once and submits no task.
C33_QuickViewPerElement ==
    /\ [](last.op = "fetch" =>
            IF last.tickers = <<>>
            THEN last.out = Text("No tickers provided.")
            ELSE /\ last.out.kind = "quickview"
                 /\ Len(last.out.entries) = Len(last.tickers)
                 /\ \A tk \in Tickers :
                      Count(last.tickers, tk)
                        = Cardinality({k \in 1..Len(last.out.entries) :
                                         last.out.entries[k].ticker = tk}))
    /\ [][\A t \in Threads :
            /\ ConsumesPrice(t) =>
                 \E i \in inv[t].pending, k \in 1..Len(prices') :
                   /\ inv'[t].pending = inv[t].pending \ {i}
                   /\ prices'[k].symbol = inv[t].tickers[i]
                   /\ inv'[t].results_summary
                        = Append(inv[t].results_summary, EntryOf(prices'[k]))
            /\ Returns(t, "fetch") =>
                 /\ inv[t].pending = {}
                 /\ last'.out.entries = inv[t].results_summary
            /\ (WholeCall(t, "fetch") /\ last'.tickers = <<>>) =>
                 \A u \in Threads : inv'[u] = inv[u]]_vars

\* A fetch of one symbol given twice returned two entries, the first a
\* status and the second a percent change, with one record stored.
C33_Witness ==
    /\ last.op = "fetch"
    /\ last.tickers = <<"NVDA", "NVDA">>
    /\ last.out.kind = "quickview"
    /\ last.out.entries = <<[ticker |-> "NVDA", status |-> "Error"],
                            [ticker |-> "NVDA", pct |-> 42]>>
    /\ Len(prices) = 1

\* -------------------------------------------------------------------- C34

\* C34: per ticker, the request for the 5-day window is made only after the
\* request for the last trading day answered an empty series; a non-empty
\* first answer (or one that raised) is never followed by a second request;
\* and the task's record has status No Data exactly when both requests
\* answered an empty series.
C34_FallbackOnlyAfterEmpty ==
    /\ [](\A t \in Threads :
            \A i \in DOMAIN TasksOf(inv[t]) :
              LET answers == TasksOf(inv[t])[i]
              IN  /\ Len(answers) \in {1, 2}
                  /\ Len(answers) = 2 => answers[1] = "empty"
                  /\ answers[1] # "empty" => Len(answers) = 1
                  /\ i \in DOMAIN DoneOf(inv[t]) =>
                       (DoneOf(inv[t])[i].status = "No Data"
                          <=> answers = <<"empty", "empty">>))
    /\ [][\A t \in Threads :
            \A i \in DOMAIN TasksOf(inv[t]) :
              (inv'[t].op = "fetch" /\ TasksOf(inv'[t])[i] # TasksOf(inv[t])[i]) =>
                /\ TasksOf(inv[t])[i] = <<"empty">>
                /\ i \notin DOMAIN DoneOf(inv[t])]_vars

\* A fetch of two tickers: the task of one got a series at once and made one
\* request, the task of the other got two empty series and returned No Data.
C34_Witness ==
    \E t \in Threads :
        /\ inv[t].op = "fetch"
        /\ \E i, j \in DOMAIN DoneOf(inv[t]) :
             /\ TasksOf(inv[t])[i] = <<"series">>
             /\ DoneOf(inv[t])[i].status = "Active"
             /\ TasksOf(inv[t])[j] = <<"empty", "empty">>
             /\ DoneOf(inv[t])[j].status = "No Data"

\* -------------------------------------------------------------------- C35

BatchOps == {"fetch", "discover", "summarize"}

\* The futures a batch call has submitted, by index.
FuturesOf(call) ==
    IF call.op = "summarize" THEN 1..Len(call.selected_items) ELSE 1..Len(call.tickers)

\* C35: if every collaborator call returns or raises, every batch call that
\* has begun returns (the other tools answer in one step); and a batch call
\* returns only when every one of its tasks has finished and been taken, so
\* while a task is unfinished the call does not return.
C35_BatchCallsReturn ==
    /\ \A t \in Threads : (inv[t].op \in BatchOps) ~> (inv[t].op = "idle")
    /\ [][\A t \in Threads :
            (inv[t].op \in BatchOps /\ inv'[t].op = "idle") =>
              /\ inv[t].pending = {}
              /\ DOMAIN DoneOf(inv[t]) = FuturesOf(inv[t])]_vars

\* A fetch of two tickers has returned with both entries.
C35_Witness ==
    /\ Quiescent
    /\ last.op = "fetch"
    /\ last.out.kind = "quickview"
    /\ Len(last.out.entries) = 2

\* -------------------------------------------------------------------- C36

\* C36: while fetch_and_store_prices runs, the tasks executing at the same
\* time are at most 10 and at most as many as there are tickers; while
\* summarize_selected_indices runs, they are at most 5.
C36_ExecutingWithinWidth ==
    \A t \in Threads :
        /\ inv[t].op = "fetch" =>
             /\ Cardinality(ExecutingOf(inv[t])) <= 10
             /\ Cardinality(ExecutingOf(inv[t])) <= Len(inv[t].tickers)
        /\ inv[t].op = "summarize" =>
             Cardinality(ExecutingOf(inv[t])) <= 5

\* A fetch of eleven tickers: ten tasks are executing and one waits.
C36_Witness ==
    \E t \in Threads :
        /\ inv[t].op = "fetch"
        /\ Len(inv[t].tickers) = 11
        /\ Cardinality(ExecutingOf(inv[t])) = 10
        /\ Cardinality(inv[t].pending) = 11

\* -------------------------------------------------------------------- C37

\* What holds of the sends of a run, in flight or finished: at most two, the
\* second only after the first raised a retryable error.
SendsAreBounded(run) ==
    /\ run.sends <= 2
    /\ Len(run.errors) <= run.sends
    /\ run.sends = 2 => (Len(run.errors) >= 1 /\ run.errors[1] = "retryable")

\* A finished run whose last send raised an error that is not retried: a
\* non-retryable one, or the second.
EndedInFailure(run) ==
    /\ run.errors # <<>>
    /\ \/ run.errors[Len(run.errors)] = "fatal"
       \/ Len(run.errors) = 2

\* C37 as stated: a run sends at most twice, the second time only after a
\* retryable error of the first; a run that ended in a non-retryable error
\* or a second failure returned None and wrote no report file; and no run
\* of finance_info raises.
C37_TwoSendsAndNeverRaises ==
    /\ \A t \in Threads :
         inv[t].op = "finance_info" =>
           /\ SendsAreBounded(inv[t])
           /\ (inv[t].pc = "send" /\ inv[t].sends = 1) => inv[t].errors = <<"retryable">>
    /\ last.op = "finance_info" =>
         /\ SendsAreBounded(last)
         /\ EndedInFailure(last) => (last.out = "None" /\ ~last.file)
         /\ last.out # "raised"

\* C37 amended: a run sends at most twice, the second time only after a
\* retryable error of the first; a run that ended in a non-retryable error
\* or a second failure wrote no report file and, if the context of
\* client.run() was left without an exception, returned None; finance_info
\* raises only when entering or leaving that context raises, never for an
\* error of agent.send.
C37_TwoSendsAndRaisesOnlyWithContext ==
    /\ \A t \in Threads :
         inv[t].op = "finance_info" =>
           /\ SendsAreBounded(inv[t])
           /\ (inv[t].pc = "send" /\ inv[t].sends = 1) => inv[t].errors = <<"retryable">>
    /\ last.op = "finance_info" =>
         /\ SendsAreBounded(last)
         /\ EndedInFailure(last) => ~last.file
         /\ (EndedInFailure(last) /\ last.left) => last.out = "None"
         /\ last.out = "raised" <=> ~(last.entered /\ last.left)

\* A run sent twice, the first send raising a retryable error and the
\* second raising again, and returned None without a report file.
C37_Witness ==
    /\ last.op = "finance_info"
    /\ last.sends = 2
    /\ last.errors = <<"retryable", "retryable">>
    /\ last.out = "None"
    /\ ~last.file

\* -------------------------------------------------------------------- C38

\* C38 as stated: in a run of summarize_news, in flight or finished, the
\* task is sent to the fallback model at most once, and only after the
\* primary model failed with a model-related error; a run whose first error
\* is not model-related raises without a send to the fallback.
C38_FallbackAtMostOnce ==
    LET Holds(run) ==
          /\ Count(run.sends, "fallback") <= 1
          /\ Count(run.sends, "fallback") >= 1 =>
                (run.errors # <<>> /\ InnerModelError(run.errors[1]))
          /\ (run.errors # <<>> /\ run.errors[1] = "other") =>
                Count(run.sends, "fallback") = 0
    IN  /\ \A t \in Threads : inv[t].op = "summarize_news" => Holds(inv[t])
        /\ last.op = "summarize_news" =>
              /\ Holds(last)
              /\ (last.errors # <<>> /\ last.errors[1] = "other") => last.out = "raised"

=============================================================================
